---- MODULE Spec2Model ----
(***************************************************************************)
(* SeatMaster: seat assignment (seating.py) and demand aggregation         *)
(* (qp_arrange.py).                                                        *)
(*                                                                         *)
(* Representation.  A Python str is a sequence of one-character strings,   *)
(* so that split / strip / upper / join are computed character by          *)
(* character.  A pandas DataFrame is the sequence of its rows, each row a  *)
(* record.  A missing cell (NaN / None) is the value NaN, which differs    *)
(* from every str.  Column names with a blank use an underscore            *)
(* ("Class No" is Class_No).                                               *)
(***************************************************************************)
EXTENDS Integers, Sequences, FiniteSets, TLC

\* room_df, students, selected_rooms, selected_day: the arguments of
\*     generate_seating (room table, roster, room selection, day column or None)
\* seating:   the outcome of generate_seating (status, seating_df, final_df)
\* summaries: the four frames generate_summaries returns
\* pc:        "input", then "seated" or "raised" after generate_seating,
\*            then "done" after generate_summaries, then "bundled" or
\*            "failed" after generate_room_pdfs
\* mapping_df, uploaded_qps: the mapping table and the uploaded question papers
\*     of the session (arguments of generate_room_pdfs)
\* bundles:   the outcome of generate_room_pdfs (status, room_pdfs,
\*            room_summary_df, warnings) and the ordered_rooms it was called with
\* session:   st.session_state of the Streamlit application
\* messages:  what the last run of the script showed (st.error, st.warning, ...)
\* call, returned: the argument of a function called on its own, and the values
\*     its calls returned
VARIABLES room_df, students, selected_rooms, selected_day, seating, summaries, pc,
          mapping_df, uploaded_qps, bundles, session, messages, call, returned

qp_vars == <<mapping_df, uploaded_qps, bundles>>

app_vars == <<session, messages>>

fn_vars == <<call, returned>>

vars == <<room_df, students, selected_rooms, selected_day, seating, summaries, pc,
          qp_vars, app_vars, fn_vars>>

(***************************************************************************)
(* Bounds of the model.                                                    *)
(***************************************************************************)
MaxRoster == 4

(***************************************************************************)
(* Python values and str methods.                                          *)
(***************************************************************************)
NaN == <<"NaN">>

Dash == <<"-">>

EmptyStr == <<>>

isna(v) == v = NaN

notna(v) == ~isna(v)

\* Code point of a character of the alphabet in use (ASCII).
ord(c) ==
    CASE c = " " -> 32 [] c = "," -> 44 [] c = "-" -> 45
      [] c = "0" -> 48 [] c = "1" -> 49 [] c = "2" -> 50 [] c = "3" -> 51
      [] c = "4" -> 52 [] c = "5" -> 53 [] c = "6" -> 54 [] c = "7" -> 55
      [] c = "8" -> 56 [] c = "9" -> 57
      [] c = "A" -> 65 [] c = "B" -> 66 [] c = "H" -> 72 [] c = "M" -> 77 [] c = "P" -> 80
      [] c = "T" -> 84 [] c = "Y" -> 89
      [] c = "a" -> 97 [] c = "h" -> 104 [] c = "m" -> 109 [] c = "p" -> 112
      [] c = "t" -> 116 [] c = "y" -> 121
      [] c = "\t" -> 9
      [] OTHER -> 127

\* str.upper() on one character.
upper_char(c) ==
    CASE c = "a" -> "A" [] c = "h" -> "H" [] c = "m" -> "M" [] c = "p" -> "P"
      [] c = "t" -> "T" [] c = "y" -> "Y"
      [] c = "d" -> "D" [] c = "f" -> "F" [] c = "q" -> "Q"
      [] OTHER -> c

upper(s) == [i \in 1..Len(s) |-> upper_char(s[i])]

isspace(c) == c \in {" ", "\t"}

RECURSIVE lstrip(_)
lstrip(s) == IF s # <<>> /\ isspace(Head(s)) THEN lstrip(Tail(s)) ELSE s

RECURSIVE rstrip(_)
rstrip(s) ==
    IF s # <<>> /\ isspace(s[Len(s)]) THEN rstrip(SubSeq(s, 1, Len(s) - 1)) ELSE s

\* str.strip()
strip(s) == rstrip(lstrip(s))

\* str.split(","): the pieces between commas; "" splits into [""].
RECURSIVE split_acc(_, _, _)
split_acc(s, cur, sep) ==
    IF s = <<>> THEN <<cur>>
    ELSE IF Head(s) = sep THEN <<cur>> \o split_acc(Tail(s), <<>>, sep)
    ELSE split_acc(Tail(s), Append(cur, Head(s)), sep)

split(s) == split_acc(s, <<>>, ",")

\* sep.join(parts)
RECURSIVE join(_, _)
join(sep, parts) ==
    IF parts = <<>> THEN <<>>
    ELSE IF Len(parts) = 1 THEN parts[1]
    ELSE parts[1] \o sep \o join(sep, Tail(parts))

CommaSpace == <<",", " ">>

\* Python's str ordering: lexicographic by code point, a proper prefix first.
RECURSIVE str_lt(_, _)
str_lt(a, b) ==
    IF b = <<>> THEN FALSE
    ELSE IF a = <<>> THEN TRUE
    ELSE IF ord(Head(a)) # ord(Head(b)) THEN ord(Head(a)) < ord(Head(b))
    ELSE str_lt(Tail(a), Tail(b))

\* utils.normalize_subject
normalize_subject_upper_only(s) == IF isna(s) THEN EmptyStr ELSE upper(s)

normalize_subject(s) == IF isna(s) THEN EmptyStr ELSE upper(strip(s))

(***************************************************************************)
(* Sequence helpers (list comprehensions, DataFrame row filters).          *)
(***************************************************************************)
RECURSIVE concat(_)
concat(ss) == IF ss = <<>> THEN <<>> ELSE Head(ss) \o concat(Tail(ss))

map_normalize(toks) == [i \in 1..Len(toks) |-> normalize_subject(toks[i])]

nonblank(s) == strip(s) # EmptyStr

\* range(a, b)
range(a, b) == [i \in 1..(IF b > a THEN b - a ELSE 0) |-> a + i - 1]

has_duplicates(xs) == \E i, j \in 1..Len(xs) : i < j /\ xs[i] = xs[j]

(***************************************************************************)
(* seating.generate_seating                                                *)
(***************************************************************************)
seats_bench_order == <<"Left", "Center", "Right">>

seats == <<"Left", "Right", "Center">>

\* room_df[room_df["Room"] == room].iloc[0]
room_row(rdf, room) ==
    LET hits == {i \in 1..Len(rdf) : rdf[i].Room = room}
        first == CHOOSE i \in hits : \A j \in hits : i <= j
    IN  rdf[first]

room_benches_open_end(rdf, room) ==
    LET row == room_row(rdf, room) IN range(row.Start, row.End)

\* room_benches[room] = list(range(start, end + 1))
room_benches(rdf, room) ==
    LET row == room_row(rdf, room) IN range(row.Start, row.End + 1)

slots_of_seat_every_table_row(rdf, ordered_rooms, seat) ==
    concat([k \in 1..Len(rdf) |->
        LET benches == room_benches(rdf, rdf[k].Room)
        IN  [j \in 1..Len(benches) |->
                [Room |-> rdf[k].Room, Bench |-> benches[j], Seat |-> seat]]])

\* the two inner loops of the slot enumeration, for one seat position
slots_of_seat(rdf, ordered_rooms, seat) ==
    concat([k \in 1..Len(ordered_rooms) |->
        LET benches == room_benches(rdf, ordered_rooms[k])
        IN  [j \in 1..Len(benches) |->
                [Room |-> ordered_rooms[k], Bench |-> benches[j], Seat |-> seat]]])

seating_data_room_major(rdf, ordered_rooms) ==
    concat([k \in 1..Len(ordered_rooms) |->
        concat([s \in 1..Len(seats) |-> slots_of_seat(rdf, <<ordered_rooms[k]>>, seats[s])])])

\* for seat in seats: for room in ordered_rooms: for bench in room_benches[room]
seating_data(rdf, ordered_rooms) ==
    concat([s \in 1..Len(seats) |-> slots_of_seat(rdf, ordered_rooms, seats[s])])

NoDay == "None"

subject_list_keep_blank(raw) == map_normalize(split(raw))

\* [normalize_subject(s) for s in raw.split(",") if str(s).strip() != ""]
subject_list(raw) == map_normalize(SelectSeq(split(raw), nonblank))

\* the Subjects cell of a filled slot
subjects_of(info, day) ==
    IF day # NoDay /\ notna(info[day])
    THEN LET raw == info[day]
             subjects == subject_list(raw)
         IN  IF subjects # <<>> THEN join(CommaSpace, subjects) ELSE Dash
    ELSE Dash

slot_filled_drops_last(i, student_list) == i < Len(student_list)

\* enumerate() counts from 0: the slot at position i (from 1) has index i - 1
slot_filled(i, student_list) == i - 1 < Len(student_list)

\* the "Assign students" loop
assign_students(data, student_list, day) ==
    [i \in 1..Len(data) |->
        IF slot_filled(i, student_list)
        THEN [Room |-> data[i].Room, Bench |-> data[i].Bench, Seat |-> data[i].Seat,
              Class_No |-> student_list[i].Class_No,
              Student_Name |-> student_list[i].Student_Name,
              Subjects |-> subjects_of(student_list[i], day)]
        ELSE [Room |-> data[i].Room, Bench |-> data[i].Bench, Seat |-> data[i].Seat,
              Class_No |-> Dash, Student_Name |-> Dash, Subjects |-> Dash]]

\* aggfunc="first" of one (Room, Bench, Seat) group; NaN when the group is empty
first_class_no(sdf, room, bench, seat) ==
    LET hits == {i \in 1..Len(sdf) :
                    sdf[i].Room = room /\ sdf[i].Bench = bench /\ sdf[i].Seat = seat}
    IN  IF hits = {} THEN NaN
        ELSE sdf[CHOOSE i \in hits : \A j \in hits : i <= j].Class_No

\* the first occurrences of the (Room, Bench) pairs of the rows
RECURSIVE unique_index(_)
unique_index(sdf) ==
    IF sdf = <<>> THEN <<>>
    ELSE LET rest == unique_index(SubSeq(sdf, 1, Len(sdf) - 1))
             last == sdf[Len(sdf)]
         IN  IF \E i \in 1..Len(rest) : rest[i].Room = last.Room /\ rest[i].Bench = last.Bench
             THEN rest
             ELSE Append(rest, [Room |-> last.Room, Bench |-> last.Bench])

index_lt(a, b) == str_lt(a.Room, b.Room) \/ (a.Room = b.Room /\ a.Bench < b.Bench)

\* rows sorted by (Room, Bench), Room compared as str; equal keys keep their order
RECURSIVE insert_by_index(_, _)
insert_by_index(row, sorted) ==
    IF sorted = <<>> THEN <<row>>
    ELSE IF index_lt(row, Head(sorted)) THEN <<row>> \o sorted
    ELSE <<Head(sorted)>> \o insert_by_index(row, Tail(sorted))

RECURSIVE sort_index(_)
sort_index(rows) ==
    IF rows = <<>> THEN <<>>
    ELSE insert_by_index(rows[Len(rows)], sort_index(SubSeq(rows, 1, Len(rows) - 1)))

\* seating_df.pivot_table(index=["Room","Bench"], columns="Seat",
\*                        values="Class No", aggfunc="first").reset_index()
pivot_table(sdf) ==
    LET index == sort_index(unique_index(sdf))
    IN  [i \in 1..Len(index) |->
            [Room |-> index[i].Room, Bench |-> index[i].Bench,
             Left |-> first_class_no(sdf, index[i].Room, index[i].Bench, "Left"),
             Center |-> first_class_no(sdf, index[i].Room, index[i].Bench, "Center"),
             Right |-> first_class_no(sdf, index[i].Room, index[i].Bench, "Right")]]

\* display_cols: Room, Bench, then Left, Center, Right where the pivot has the column
display_cols(sdf) ==
    <<"Room", "Bench">> \o
    SelectSeq(<<"Left", "Center", "Right">>,
              LAMBDA c : \E i \in 1..Len(sdf) : sdf[i].Seat = c)

\* code of a room in pd.Categorical(..., categories=ordered_rooms, ordered=True);
\* a value outside the categories becomes NaN, which sort_values puts last
category_code(ordered_rooms, room) ==
    IF \E k \in 1..Len(ordered_rooms) : ordered_rooms[k] = room
    THEN CHOOSE k \in 1..Len(ordered_rooms) : ordered_rooms[k] = room
    ELSE Len(ordered_rooms) + 1

categorical_lt(a, b, ordered_rooms) ==
    \/ category_code(ordered_rooms, a.Room) < category_code(ordered_rooms, b.Room)
    \/ a.Room = b.Room /\ a.Bench < b.Bench

RECURSIVE insert_by_category(_, _, _)
insert_by_category(row, sorted, ordered_rooms) ==
    IF sorted = <<>> THEN <<row>>
    ELSE IF categorical_lt(row, Head(sorted), ordered_rooms) THEN <<row>> \o sorted
    ELSE <<Head(sorted)>> \o insert_by_category(row, Tail(sorted), ordered_rooms)

sort_values_by_name(pivot, ordered_rooms) == sort_index(pivot)

\* final_df.sort_values(["Room","Bench"]) with Room categorical
RECURSIVE sort_values(_, _)
sort_values(pivot, ordered_rooms) ==
    IF pivot = <<>> THEN <<>>
    ELSE insert_by_category(pivot[Len(pivot)],
                            sort_values(SubSeq(pivot, 1, Len(pivot) - 1), ordered_rooms),
                            ordered_rooms)

\* The value of the call: status "ok" with the two returned frames, or the
\* exception raised.  pd.Categorical rejects categories that are not unique
\* (ValueError); seating_df is then the frame built before the raise, which the
\* caller never receives.
generate_seating(rdf, studs, rooms, day) ==
    LET seating_df == assign_students(seating_data(rdf, rooms), studs, day)
    IN  IF has_duplicates(rooms)
        THEN [status |-> "ValueError", seating_df |-> seating_df,
              final_df |-> [columns |-> <<>>, rows |-> <<>>]]
        ELSE [status |-> "ok", seating_df |-> seating_df,
              final_df |-> [columns |-> display_cols(seating_df),
                            rows |-> sort_values(pivot_table(seating_df), rooms)]]

(***************************************************************************)
(* qp_arrange.generate_summaries                                           *)
(* A frame that can come out without rows is [columns, rows]:              *)
(* pd.DataFrame([]) has no columns at all.                                 *)
(***************************************************************************)
nonempty(s) == s # EmptyStr

subject_tokens_not_normalized(subjects) == SelectSeq(split(subjects), nonempty)

\* for s in str(subjects).split(","): s_norm = normalize_subject(s); if s_norm: ...
subject_tokens(subjects) == SelectSeq(map_normalize(split(subjects)), nonempty)

\* the rows appended to qp_summary_records, in iterrows order
qp_summary_records(sdf) ==
    concat([i \in 1..Len(sdf) |->
        IF sdf[i].Subjects = Dash THEN <<>>
        ELSE LET toks == subject_tokens(sdf[i].Subjects)
             IN  [j \in 1..Len(toks) |->
                     [Room |-> sdf[i].Room, Bench |-> sdf[i].Bench,
                      Seat |-> sdf[i].Seat, Subject |-> toks[j]]]])

\* room_subjects of one room
room_subjects(sdf, room) ==
    concat([i \in 1..Len(sdf) |->
        IF sdf[i].Room = room /\ sdf[i].Subjects # Dash
        THEN subject_tokens(sdf[i].Subjects)
        ELSE <<>>])

\* sorted(set(xs)) for a list of str
RECURSIVE insert_str(_, _)
insert_str(x, sorted) ==
    IF sorted = <<>> THEN <<x>>
    ELSE IF x = Head(sorted) THEN sorted
    ELSE IF str_lt(x, Head(sorted)) THEN <<x>> \o sorted
    ELSE <<Head(sorted)>> \o insert_str(x, Tail(sorted))

RECURSIVE sorted_set(_)
sorted_set(xs) ==
    IF xs = <<>> THEN <<>> ELSE insert_str(Head(xs), sorted_set(Tail(xs)))

total_students_all_slots(sdf, room) ==
    Len(SelectSeq(sdf, LAMBDA r : r.Room = room))

total_students_with_subjects(sdf, room) ==
    Len(SelectSeq(sdf, LAMBDA r : r.Room = room /\ r.Subjects # Dash))

\* len(rs[rs["Class No"] != "-"])
total_students(sdf, room) ==
    Len(SelectSeq(sdf, LAMBDA r : r.Room = room /\ r.Class_No # Dash))

subjects_in_room_unsorted(sdf, room) == join(CommaSpace, room_subjects(sdf, room))

\* ", ".join(sorted(set(room_subjects)))
subjects_in_room(sdf, room) == join(CommaSpace, sorted_set(room_subjects(sdf, room)))

summary_records(sdf, ordered_rooms) ==
    [k \in 1..Len(ordered_rooms) |->
        [Room |-> ordered_rooms[k],
         Total_Students |-> total_students(sdf, ordered_rooms[k]),
         Subjects_in_Room |-> subjects_in_room(sdf, ordered_rooms[k])]]

\* str(bench) for a bench number below 10, str of a seat name
str_of_int(n) == <<<<"0", "1", "2", "3", "4", "5", "6", "7", "8", "9">>[n + 1]>>

str_of_seat(seat) ==
    CASE seat = "Left" -> <<"L", "e", "f", "t">>
      [] seat = "Right" -> <<"R", "i", "g", "h", "t">>
      [] seat = "Center" -> <<"C", "e", "n", "t", "e", "r">>

\* the (Room, Subject) group keys, sorted as groupby sorts them
group_lt(a, b) == str_lt(a.Room, b.Room) \/ (a.Room = b.Room /\ str_lt(a.Subject, b.Subject))

RECURSIVE insert_key(_, _)
insert_key(x, sorted) ==
    IF sorted = <<>> THEN <<x>>
    ELSE IF x = Head(sorted) THEN sorted
    ELSE IF group_lt(x, Head(sorted)) THEN <<x>> \o sorted
    ELSE <<Head(sorted)>> \o insert_key(x, Tail(sorted))

RECURSIVE group_keys(_)
group_keys(detail) ==
    IF detail = <<>> THEN <<>>
    ELSE insert_key([Room |-> Head(detail).Room, Subject |-> Head(detail).Subject],
                    group_keys(Tail(detail)))

group_rows_subject_only(detail, key) ==
    SelectSeq(detail, LAMBDA r : r.Subject = key.Subject)

group_rows(detail, key) ==
    SelectSeq(detail, LAMBDA r : r.Room = key.Room /\ r.Subject = key.Subject)

bench_seat_locations_first_bench(rows) ==
    join(CommaSpace,
         [i \in 1..Len(rows) |->
             str_of_int(rows[1].Bench) \o <<"-">> \o str_of_seat(rows[i].Seat)])

\* f"{b}-{s}" of the rows of one group, joined with ", "
bench_seat_locations(rows) ==
    join(CommaSpace,
         [i \in 1..Len(rows) |->
             str_of_int(rows[i].Bench) \o <<"-">> \o str_of_seat(rows[i].Seat)])

\* pd.DataFrame(records): the columns are the keys of the records, none without records
frame(records, columns) ==
    [columns |-> IF records = <<>> THEN <<>> ELSE columns, rows |-> records]

qp_count_df_columns_from_records(detail) ==
    LET keys == group_keys(detail)
    IN  frame([g \in 1..Len(keys) |->
                  [Room |-> keys[g].Room, Subject |-> keys[g].Subject,
                   QP_Needed |-> Len(group_rows(detail, keys[g])),
                   Bench_Seat_Locations |->
                       bench_seat_locations(group_rows(detail, keys[g]))]],
              <<"Room", "Subject", "QP_Needed", "Bench_Seat_Locations">>)

qp_count_df(detail) ==
    IF detail # <<>>
    THEN LET keys == group_keys(detail)
         IN  [columns |-> <<"Room", "Subject", "QP_Needed", "Bench_Seat_Locations">>,
              rows |-> [g \in 1..Len(keys) |->
                  [Room |-> keys[g].Room, Subject |-> keys[g].Subject,
                   QP_Needed |-> Len(group_rows(detail, keys[g])),
                   Bench_Seat_Locations |->
                       bench_seat_locations(group_rows(detail, keys[g]))]]]
    ELSE [columns |-> <<"Room", "Subject", "QP_Needed", "Bench_Seat_Locations">>,
          rows |-> <<>>]

hall_qp_summary_df(detail) ==
    IF detail # <<>>
    THEN LET keys == group_keys(detail)
         IN  [columns |-> <<"Room", "Subject", "Total_QPs_Needed">>,
              rows |-> [g \in 1..Len(keys) |->
                  [Room |-> keys[g].Room, Subject |-> keys[g].Subject,
                   Total_QPs_Needed |-> Len(group_rows(detail, keys[g]))]]]
    ELSE [columns |-> <<"Room", "Subject", "Total_QPs_Needed">>, rows |-> <<>>]

generate_summaries(sdf, ordered_rooms) ==
    LET detail == qp_summary_records(sdf)
    IN  [summary_df |-> frame(summary_records(sdf, ordered_rooms),
                              <<"Room", "Total_Students", "Subjects_in_Room">>),
         qp_summary_df |-> frame(detail, <<"Room", "Bench", "Seat", "Subject">>),
         qp_count_df |-> qp_count_df(detail),
         hall_qp_summary_df |-> hall_qp_summary_df(detail)]

(***************************************************************************)
(* qp_arrange.generate_room_pdfs                                           *)
(*                                                                         *)
(* mapping_df is [none, columns, rows]: none is TRUE for Python's None;    *)
(* a row is [Subject_Name, QP_Code].  uploaded_qps is a dict, a function   *)
(* from QP codes to the uploaded bytes; the bytes are [readable, pages]:   *)
(* PdfReader raises on bytes that are not a PDF, and otherwise gives the   *)
(* pages, a sequence of page ids.  st.warning calls are collected in the   *)
(* warnings field of the result.                                           *)
(***************************************************************************)
room_rows(qp_rows, room) == SelectSeq(qp_rows, LAMBDA r : r.Room = room)

\* the subjects of the rows, each once, in the order of their first row
RECURSIVE first_seen(_)
first_seen(rows) ==
    IF rows = <<>> THEN <<>>
    ELSE LET before == first_seen(SubSeq(rows, 1, Len(rows) - 1))
             subj == rows[Len(rows)].Subject
         IN  IF \E k \in 1..Len(before) : before[k] = subj THEN before
             ELSE Append(before, subj)

count_of(rows, subj) == Len(SelectSeq(rows, LAMBDA r : r.Subject = subj))

\* Ties of value_counts: pandas sorts by count and promises no order among
\* equal counts.  "first" keeps the order of first appearance, "last" reverses it.
TieOrders == {"first", "last"}

RECURSIVE insert_by_count(_, _, _)
insert_by_count(x, sorted, ties) ==
    IF sorted = <<>> THEN <<x>>
    ELSE IF \/ x.count > Head(sorted).count
            \/ (x.count = Head(sorted).count /\ ties = "last")
         THEN <<x>> \o sorted
         ELSE <<Head(sorted)>> \o insert_by_count(x, Tail(sorted), ties)

RECURSIVE sort_by_count(_, _)
sort_by_count(items, ties) ==
    IF items = <<>> THEN <<>>
    ELSE insert_by_count(items[Len(items)],
                         sort_by_count(SubSeq(items, 1, Len(items) - 1), ties), ties)

\* room_rows["Subject"].value_counts().to_dict(), as the sequence of its items
value_counts(rows, ties) ==
    LET subjects == first_seen(rows)
    IN  sort_by_count([k \in 1..Len(subjects) |->
                          [Subject |-> subjects[k], count |-> count_of(rows, subjects[k])]],
                      ties)

matched_codes_last_first(mapping, subj) ==
    LET hits == SelectSeq(mapping.rows, LAMBDA r : r.Subject_Name = subj)
    IN  [k \in 1..Len(hits) |-> hits[Len(hits) + 1 - k].QP_Code]

\* mapping_df[mapping_df["Subject Name"] == subj]["QP Code"].values
matched_codes(mapping, subj) ==
    LET hits == SelectSeq(mapping.rows, LAMBDA r : r.Subject_Name = subj)
    IN  [k \in 1..Len(hits) |-> hits[k].QP_Code]

\* both column lookups of line 82 raise KeyError on a table without the column
has_mapping_columns(mapping) == {"Subject_Name", "QP_Code"} \subseteq mapping.columns

copies_once(pages, count) == pages

\* for _ in range(int(count)): for p in reader.pages: writer.add_page(p)
RECURSIVE copies(_, _)
copies(pages, count) ==
    IF count = 0 THEN <<>> ELSE pages \o copies(pages, count - 1)

no_warning(acc, w) == acc

\* st.warning(...)
warning(acc, w) == [acc EXCEPT !.warnings = Append(@, w)]

\* the body of "for subj, count in subject_counts.items()" for one item
bundle_subject(item, room, mapping, uploads, acc) ==
    IF ~has_mapping_columns(mapping) THEN [acc EXCEPT !.status = "KeyError"]
    ELSE LET matched == matched_codes(mapping, item.Subject)
         IN  IF Len(matched) = 0
             THEN warning(acc, [kind |-> "No QP code found", Subject |-> item.Subject,
                                Room |-> room, QP_Code |-> EmptyStr])
             ELSE LET qp_code == matched[1]
                  IN  IF qp_code \notin DOMAIN uploads
                      THEN warning(acc, [kind |-> "No uploaded PDF found",
                                         Subject |-> item.Subject, Room |-> room,
                                         QP_Code |-> qp_code])
                      ELSE IF ~uploads[qp_code].readable
                      THEN [acc EXCEPT !.status = "PdfReadError"]
                      ELSE [acc EXCEPT
                              !.writer = @ \o copies(uploads[qp_code].pages, item.count),
                              !.room_summary_rows =
                                  Append(@, [Room |-> room, Subject |-> item.Subject,
                                             QP_Code |-> qp_code, Students |-> item.count])]

RECURSIVE bundle_subjects(_, _, _, _, _)
bundle_subjects(items, room, mapping, uploads, acc) ==
    IF items = <<>> \/ acc.status # "ok" THEN acc
    ELSE bundle_subjects(Tail(items), room, mapping, uploads,
                         bundle_subject(Head(items), room, mapping, uploads, acc))

\* room_pdfs[room] = out.getvalue()
set_item(dict, key, value) ==
    [k \in DOMAIN dict \cup {key} |-> IF k = key THEN value ELSE dict[k]]

has_pages_always(writer) == TRUE

\* len(writer.pages) > 0
has_pages(writer) == Len(writer) > 0

\* the body of "for room in ordered_rooms" for one room
bundle_room(room, qp_rows, mapping, uploads, ties, acc) ==
    IF room_rows(qp_rows, room) = <<>> THEN acc
    ELSE LET after == bundle_subjects(value_counts(room_rows(qp_rows, room), ties),
                                      room, mapping, uploads, [acc EXCEPT !.writer = <<>>])
         IN  IF after.status = "ok" /\ has_pages(after.writer)
             THEN [after EXCEPT !.room_pdfs = set_item(@, room, after.writer)]
             ELSE after

RECURSIVE bundle_rooms(_, _, _, _, _, _)
bundle_rooms(rooms, qp_rows, mapping, uploads, ties, acc) ==
    IF rooms = <<>> \/ acc.status # "ok" THEN acc
    ELSE bundle_rooms(Tail(rooms), qp_rows, mapping, uploads, ties,
                      bundle_room(Head(rooms), qp_rows, mapping, uploads, ties, acc))

\* an empty dict
EmptyDict == [k \in {} |-> <<>>]

bundling_guard_without_uploads(mapping, qp_summary, uploads) ==
    ~mapping.none /\ qp_summary.rows # <<>>

\* if mapping_df is not None and not qp_summary_df.empty and uploaded_qps
bundling_guard(mapping, qp_summary, uploads) ==
    ~mapping.none /\ qp_summary.rows # <<>> /\ DOMAIN uploads # {}

\* the (Room, Subject, QP Code) keys of the summary rows, sorted as groupby sorts
\* them; within one call the QP code is determined by the subject
RECURSIVE bundle_keys(_)
bundle_keys(rows) ==
    IF rows = <<>> THEN <<>>
    ELSE insert_key([Room |-> Head(rows).Room, Subject |-> Head(rows).Subject,
                     QP_Code |-> Head(rows).QP_Code],
                    bundle_keys(Tail(rows)))

sum_students_counts_rows(rows) == Len(rows)

RECURSIVE sum_students(_)
sum_students(rows) ==
    IF rows = <<>> THEN 0 ELSE Head(rows).Students + sum_students(Tail(rows))

\* groupby(["Room", "Subject", "QP Code"]).agg({"Students": "sum"})
grouped_students(rows) ==
    LET keys == bundle_keys(rows)
    IN  [g \in 1..Len(keys) |->
            [Room |-> keys[g].Room, Subject |-> keys[g].Subject, QP_Code |-> keys[g].QP_Code,
             Students |-> sum_students(SelectSeq(rows, LAMBDA r :
                              /\ r.Room = keys[g].Room
                              /\ r.Subject = keys[g].Subject
                              /\ r.QP_Code = keys[g].QP_Code))]]

\* pd.DataFrame(room_summary_rows), grouped, sorted by Room (the groups already
\* are) and merged with the Total Students of each room
room_summary_df(rows) ==
    IF rows = <<>> THEN [columns |-> <<>>, rows |-> <<>>]
    ELSE LET grouped == grouped_students(rows)
         IN  [columns |-> <<"Room", "Subject", "QP_Code", "Students", "Total_Students">>,
              rows |-> [g \in 1..Len(grouped) |->
                  [Room |-> grouped[g].Room, Subject |-> grouped[g].Subject,
                   QP_Code |-> grouped[g].QP_Code, Students |-> grouped[g].Students,
                   Total_Students |->
                       sum_students(SelectSeq(grouped, LAMBDA r : r.Room = grouped[g].Room))]]]

\* status is "ok" when the call returns, else the exception it raises; nothing
\* is returned then
generate_room_pdfs(mapping, qp_summary, uploads, ordered_rooms, ties) ==
    LET start == [status |-> "ok", room_pdfs |-> EmptyDict, room_summary_rows |-> <<>>,
                  warnings |-> <<>>, writer |-> <<>>]
        acc == IF bundling_guard(mapping, qp_summary, uploads)
               THEN bundle_rooms(ordered_rooms, qp_summary.rows, mapping, uploads, ties, start)
               ELSE start
    IN  IF acc.status = "ok"
        THEN [status |-> "ok", room_pdfs |-> acc.room_pdfs,
              room_summary_df |-> room_summary_df(acc.room_summary_rows),
              warnings |-> acc.warnings]
        ELSE [status |-> acc.status, room_pdfs |-> EmptyDict,
              room_summary_df |-> [columns |-> <<>>, rows |-> <<>>],
              warnings |-> acc.warnings]


(***************************************************************************)
(* Inputs.                                                                 *)
(***************************************************************************)
RoomA == <<"A">>

RoomB == <<"B">>

\* Room tables (Room, Start, End), End >= Start; the second lists room A twice.
RoomTables ==
    { << [Room |-> RoomA, Start |-> 1, End |-> 2],
         [Room |-> RoomB, Start |-> 1, End |-> 1] >>,
      << [Room |-> RoomA, Start |-> 2, End |-> 2],
         [Room |-> RoomB, Start |-> 1, End |-> 2],
         [Room |-> RoomA, Start |-> 1, End |-> 3] >> }

\* Room selections: every id is in the tables; the last repeats a room.
Selections ==
    { <<RoomA>>, <<RoomB>>, <<RoomA, RoomB>>, <<RoomB, RoomA>>, <<RoomA, RoomA>> }

Math == <<"M", "a", "t", "h">>

PhyMath == <<" ", "p", "h", "y", " ", ",", ",", "m", "a", "t", "h">>

Blank == <<" ", ",", " ">>

\* Cells of the day column: missing, "Math", " phy ,,math", " , "
DayValues == {NaN, Math, PhyMath, Blank}

Day1 == "DAY1"

Days == {NoDay, Day1}

Digits == <<"1", "2", "3", "4", "5", "6", "7", "8", "9">>

\* Rosters: row i has Class No "i" and Student Name "si"
Rosters ==
    UNION { { [i \in 1..n |->
                 [Class_No |-> <<Digits[i]>>, Student_Name |-> <<"s", Digits[i]>>,
                  DAY1 |-> cells[i]]] : cells \in [1..n -> DayValues] } : n \in 0..MaxRoster }

NoSeating == [status |-> "none", seating_df |-> <<>>,
              final_df |-> [columns |-> <<>>, rows |-> <<>>]]

NoFrame == [columns |-> <<>>, rows |-> <<>>]

NoSummaries == [summary_df |-> NoFrame, qp_summary_df |-> NoFrame,
                qp_count_df |-> NoFrame, hall_qp_summary_df |-> NoFrame]

\* mapping_df = None
NoMapping == [none |-> TRUE, columns |-> {}, rows |-> <<>>]

NoBundles == [status |-> "none", room_pdfs |-> EmptyDict, room_summary_df |-> NoFrame,
              warnings |-> <<>>, ordered_rooms |-> <<>>]

\* the session before any file is saved
NoStored == [final_df |-> NoFrame, seating_df |-> <<>>, summaries |-> NoSummaries]

NoFile == [none |-> TRUE, columns |-> {}, rows |-> <<>>]

NoSession == [room_file_obj |-> NoFile, student_file_obj |-> NoFile,
              select_rooms |-> <<>>, selected_rooms |-> <<>>, selected_day |-> NoDay,
              stored |-> NoStored, generated_seating |-> FALSE]

\* the variables a specification leaves at their initial value
NoQp == mapping_df = NoMapping /\ uploaded_qps = EmptyDict /\ bundles = NoBundles

NoApp == session = NoSession /\ messages = <<>>

NoCall == call = <<>> /\ returned = <<>>

(***************************************************************************)
(* The pipeline of the "Generate Seating Plan" handler: generate_seating,  *)
(* then generate_summaries on its seating_df.                              *)
(***************************************************************************)
Init ==
    /\ room_df \in RoomTables
    /\ students \in Rosters
    /\ selected_rooms \in Selections
    /\ selected_day \in Days
    /\ seating = NoSeating
    /\ summaries = NoSummaries
    /\ pc = "input"
    /\ NoQp
    /\ NoApp
    /\ NoCall

GenerateSeating ==
    /\ pc = "input"
    /\ seating' = generate_seating(room_df, students, selected_rooms, selected_day)
    /\ pc' = IF seating'.status = "ok" THEN "seated" ELSE "raised"
    /\ UNCHANGED <<room_df, students, selected_rooms, selected_day, summaries,
                   qp_vars, app_vars, fn_vars>>

GenerateSummaries ==
    /\ pc = "seated"
    /\ summaries' = generate_summaries(seating.seating_df, selected_rooms)
    /\ pc' = "done"
    /\ UNCHANGED <<room_df, students, selected_rooms, selected_day, seating,
                   qp_vars, app_vars, fn_vars>>

Next == GenerateSeating \/ GenerateSummaries

Spec == Init /\ [][Next]_vars

\* A cell that names one subject twice: "Math, math"
MathTwice == <<"M", "a", "t", "h", ",", " ", "m", "a", "t", "h">>

RepeatValues == {NaN, Math, MathTwice}

RostersWithRepeats ==
    UNION { { [i \in 1..n |->
                 [Class_No |-> <<Digits[i]>>, Student_Name |-> <<"s", Digits[i]>>,
                  DAY1 |-> cells[i]]] : cells \in [1..n -> RepeatValues] } : n \in 0..MaxRoster }

InitRepeats ==
    /\ room_df \in RoomTables
    /\ students \in RostersWithRepeats
    /\ selected_rooms \in Selections
    /\ selected_day \in Days
    /\ seating = NoSeating
    /\ summaries = NoSummaries
    /\ pc = "input"
    /\ NoQp
    /\ NoApp
    /\ NoCall

\* The same pipeline over rosters whose cells may repeat a subject.
SpecRepeats == InitRepeats /\ [][Next]_vars

(***************************************************************************)
(* The "Generate Room-wise QP PDFs" handler: generate_room_pdfs on the     *)
(* stored qp detail, the mapping table and the uploaded papers.            *)
(***************************************************************************)
MaxDemand == 3

MATH == <<"M", "A", "T", "H">>

PHY == <<"P", "H", "Y">>

Q1 == <<"Q", "1">>

Q2 == <<"Q", "2">>

MappingColumns == {"Subject_Name", "QP_Code"}

\* Mapping tables: none; MATH and PHY mapped; PHY not mapped; MATH listed
\* twice (Q2 first); no row; a table whose subject column has another name
Mappings ==
    { NoMapping,
      [none |-> FALSE, columns |-> MappingColumns,
       rows |-> << [Subject_Name |-> MATH, QP_Code |-> Q1],
                   [Subject_Name |-> PHY, QP_Code |-> Q2] >>],
      [none |-> FALSE, columns |-> MappingColumns,
       rows |-> << [Subject_Name |-> MATH, QP_Code |-> Q1] >>],
      [none |-> FALSE, columns |-> MappingColumns,
       rows |-> << [Subject_Name |-> MATH, QP_Code |-> Q2],
                   [Subject_Name |-> MATH, QP_Code |-> Q1],
                   [Subject_Name |-> PHY, QP_Code |-> Q1] >>],
      [none |-> FALSE, columns |-> MappingColumns, rows |-> <<>>],
      [none |-> FALSE, columns |-> {"Subject", "QP_Code"},
       rows |-> << [Subject_Name |-> MATH, QP_Code |-> Q1] >>] }

\* Uploaded files: a paper of two pages, a paper of one page, a PDF without
\* pages, and bytes that are not a PDF
PdfQ1 == [readable |-> TRUE, pages |-> <<"Q1-p1", "Q1-p2">>]

PdfQ2 == [readable |-> TRUE, pages |-> <<"Q2-p1">>]

PdfNoPages == [readable |-> TRUE, pages |-> <<>>]

NotAPdf == [readable |-> FALSE, pages |-> <<>>]

Uploads ==
    { EmptyDict,
      Q1 :> PdfQ1,
      Q2 :> PdfQ2,
      (Q1 :> PdfQ1) @@ (Q2 :> PdfQ2),
      (Q1 :> PdfNoPages) @@ (Q2 :> PdfQ2),
      (Q1 :> NotAPdf) @@ (Q2 :> PdfQ2) }

(***************************************************************************)
(* app.build_uploaded_qps (the same expression is in data_loader.py): a    *)
(* file is [name, bytes].                                                  *)
(***************************************************************************)
DotPdf == <<".", "p", "d", "f">>

\* the positions where sep occurs in s
occurrences(s, sep) ==
    { i \in 1..(Len(s) - Len(sep) + 1) : SubSeq(s, i, i + Len(sep) - 1) = sep }

\* s.rsplit(sep, 1)[0]: s up to the last occurrence of sep, s itself without one
rsplit_head(s, sep) ==
    IF occurrences(s, sep) = {} THEN s
    ELSE LET last == CHOOSE i \in occurrences(s, sep) : \A j \in occurrences(s, sep) : j <= i
         IN  SubSeq(s, 1, last - 1)

\* qp.name.rsplit(".pdf", 1)[0].upper().strip()
qp_key(name) == strip(upper(rsplit_head(name, DotPdf)))

\* {qp_key(qp.name): qp.getvalue() for qp in qp_file_objs}
RECURSIVE build_uploaded_qps(_)
build_uploaded_qps(qp_file_objs) ==
    IF qp_file_objs = <<>> THEN EmptyDict
    ELSE LET last == qp_file_objs[Len(qp_file_objs)]
         IN  set_item(build_uploaded_qps(SubSeq(qp_file_objs, 1, Len(qp_file_objs) - 1)),
                      qp_key(last.name), last.bytes)

\* the first room table
BundleRooms == << [Room |-> RoomA, Start |-> 1, End |-> 2],
                  [Room |-> RoomB, Start |-> 1, End |-> 1] >>

BundleSelections == { <<RoomA>>, <<RoomA, RoomB>>, <<RoomB, RoomA>> }

\* Rosters whose students all take MATH, or PHY and MATH
BundleRosters ==
    UNION { { [i \in 1..n |->
                 [Class_No |-> <<Digits[i]>>, Student_Name |-> <<"s", Digits[i]>>,
                  DAY1 |-> cells[i]]] : cells \in [1..n -> {Math, PhyMath}] } : n \in 0..MaxDemand }

\* ordered_rooms of the call: selected_rooms of the session when the handler
\* runs (the selection of the seating run or a later one), or, for a call of
\* the function by another caller, a list that names a room twice
RoomOrders ==
    { <<>>, <<RoomA>>, <<RoomB>>, <<RoomA, RoomB>>, <<RoomB, RoomA>>, <<RoomA, RoomA>> }

InitPdf ==
    /\ room_df = BundleRooms
    /\ students \in BundleRosters
    /\ selected_rooms \in BundleSelections
    /\ selected_day = Day1
    /\ seating = NoSeating
    /\ summaries = NoSummaries
    /\ pc = "input"
    /\ mapping_df \in Mappings
    /\ uploaded_qps \in Uploads
    /\ bundles = NoBundles
    /\ NoApp
    /\ NoCall

\* the warnings of the handler before the call
handler_warnings(mapping, uploads) ==
    (IF mapping.none
     THEN << [kind |-> "No mapping file found in session", Subject |-> EmptyStr,
              Room |-> EmptyStr, QP_Code |-> EmptyStr] >>
     ELSE <<>>)
    \o (IF DOMAIN uploads = {}
        THEN << [kind |-> "No QP PDFs uploaded", Subject |-> EmptyStr,
                 Room |-> EmptyStr, QP_Code |-> EmptyStr] >>
        ELSE <<>>)

GenerateRoomPdfs ==
    /\ pc = "done"
    /\ \E ordered_rooms \in RoomOrders, ties \in TieOrders :
          LET result == generate_room_pdfs(mapping_df, summaries.qp_summary_df,
                                           uploaded_qps, ordered_rooms, ties)
          IN  /\ bundles' = [status |-> result.status, room_pdfs |-> result.room_pdfs,
                             room_summary_df |-> result.room_summary_df,
                             warnings |-> result.warnings,
                             ordered_rooms |-> ordered_rooms]
              /\ messages' = handler_warnings(mapping_df, uploaded_qps) \o result.warnings
              /\ pc' = IF result.status = "ok" THEN "bundled" ELSE "failed"
    /\ UNCHANGED <<room_df, students, selected_rooms, selected_day, seating, summaries,
                   mapping_df, uploaded_qps, session, fn_vars>>

NextPdf == GenerateSeating \/ GenerateSummaries \/ GenerateRoomPdfs

SpecPdf == InitPdf /\ [][NextPdf]_vars

(***************************************************************************)
(* The Streamlit script (app.py): the saved files, the room selection and  *)
(* the "Generate Seating Plan" button.  Every interaction runs the script  *)
(* once.  A file is the table parsed from it, [none, columns, rows]; the   *)
(* rows keep the record shape of the roster and the room table, columns    *)
(* says which columns the file has.  The stored Excel bytes are held as    *)
(* the frames they are written from.                                       *)
(***************************************************************************)
RoomFiles ==
    { [none |-> FALSE, columns |-> {"Room", "Start", "End"}, rows |-> BundleRooms],
      [none |-> FALSE, columns |-> {"Room", "End"}, rows |-> BundleRooms],
      [none |-> FALSE, columns |-> {"Hall", "Start", "End"}, rows |-> BundleRooms] }

RosterOf(cells) ==
    [i \in 1..Len(cells) |->
        [Class_No |-> <<Digits[i]>>, Student_Name |-> <<"s", Digits[i]>>, DAY1 |-> cells[i]]]

StudentFiles ==
    { [none |-> FALSE, columns |-> {"Class_No", "Student_Name", "DAY1"},
       rows |-> RosterOf(<<Math, PhyMath>>)],
      [none |-> FALSE, columns |-> {"Class_No", "Student_Name", "DAY1"},
       rows |-> RosterOf(<<PhyMath>>)],
      [none |-> FALSE, columns |-> {"Roll_No", "Student_Name", "DAY1"},
       rows |-> RosterOf(<<Math, PhyMath>>)],
      [none |-> FALSE, columns |-> {"Class_No", "Name", "DAY1"},
       rows |-> RosterOf(<<Math, PhyMath>>)] }

\* values of the multiselect: rooms of the table, each at most once
WidgetSelections == { <<>>, <<RoomA>>, <<RoomA, RoomB>>, <<RoomB, RoomA>> }

message(kind, text) == [kind |-> kind, text |-> text]

\* save_uploaded_files: a file that is not given keeps the saved one
save_uploaded_files(s, room_file, student_file) ==
    [s EXCEPT !.room_file_obj = IF room_file.none THEN @ ELSE room_file,
              !.student_file_obj = IF student_file.none THEN @ ELSE student_file]

roster_has_columns_always(sf) == TRUE

\* "Class No" in students.columns and "Student Name" in students.columns
roster_has_columns(sf) == {"Class_No", "Student_Name"} \subseteq sf.columns

\* subject_columns / selected_day of the selectbox
day_of(sf) == IF "DAY1" \in sf.columns THEN Day1 ELSE NoDay

\* One run of the seating tab; pressed says whether the run was started by the
\* "Generate Seating Plan" button.  An exception ends the run where it is raised.
seating_tab(s, pressed) ==
    LET rf == s.room_file_obj
        sf == s.student_file_obj
        s1 == [s EXCEPT !.selected_rooms = s.select_rooms, !.selected_day = day_of(sf)]
    IN  IF rf.none \/ sf.none
        THEN [session |-> s, messages |-> << message("info", "Please upload") >>]
        ELSE IF "Room" \notin rf.columns
        THEN [session |-> s, messages |-> << message("exception", "KeyError") >>]
        ELSE IF s.select_rooms # <<>> /\ ~({"Start", "End"} \subseteq rf.columns)
        THEN [session |-> s1, messages |-> << message("exception", "KeyError") >>]
        ELSE IF ~pressed
        THEN [session |-> s1, messages |-> <<>>]
        ELSE IF s.select_rooms = <<>>
        THEN [session |-> s1,
              messages |-> << message("error", "Please select at least one room.") >>]
        ELSE IF ~roster_has_columns(sf)
        THEN [session |-> s1,
              messages |-> << message("error", "Student list must contain") >>]
        ELSE LET seated == generate_seating(rf.rows, sf.rows, s.select_rooms, day_of(sf))
             IN  IF seated.status # "ok"
                 THEN [session |-> s1, messages |-> << message("exception", seated.status) >>]
                 ELSE [session |->
                          [s1 EXCEPT !.stored =
                                        [final_df |-> seated.final_df,
                                         seating_df |-> seated.seating_df,
                                         summaries |-> generate_summaries(seated.seating_df,
                                                                          s.select_rooms)],
                                     !.generated_seating = TRUE],
                       messages |-> << message("success", "Seating plan generated") >>]

InitApp ==
    /\ room_df = BundleRooms
    /\ students = <<>>
    /\ selected_rooms = <<>>
    /\ selected_day = NoDay
    /\ seating = NoSeating
    /\ summaries = NoSummaries
    /\ pc = "app"
    /\ NoQp
    /\ NoApp
    /\ NoCall

AppUnchanged ==
    UNCHANGED <<room_df, students, selected_rooms, selected_day, seating, summaries, pc,
                qp_vars, fn_vars>>

\* "Save All Files to Session", then the rest of the script
SaveUploads ==
    /\ pc = "app"
    /\ \E room_file \in RoomFiles \cup {NoFile}, student_file \in StudentFiles \cup {NoFile} :
          LET run == seating_tab(save_uploaded_files(session, room_file, student_file), FALSE)
          IN  /\ session' = run.session
              /\ messages' = << message("success", "Files saved") >> \o run.messages
    /\ AppUnchanged

\* a change of the multiselect, shown when both files are parsed
SelectRooms ==
    /\ pc = "app"
    /\ ~session.room_file_obj.none /\ ~session.student_file_obj.none
    /\ "Room" \in session.room_file_obj.columns
    /\ \E select_rooms \in WidgetSelections :
          LET run == seating_tab([session EXCEPT !.select_rooms = select_rooms], FALSE)
          IN  session' = run.session /\ messages' = run.messages
    /\ AppUnchanged

\* a press of "Generate Seating Plan"
PressGenerateSeating ==
    /\ pc = "app"
    /\ ~session.room_file_obj.none /\ ~session.student_file_obj.none
    /\ LET run == seating_tab(session, TRUE)
       IN  session' = run.session /\ messages' = run.messages
    /\ AppUnchanged

NextApp == SaveUploads \/ SelectRooms \/ PressGenerateSeating

SpecApp == InitApp /\ [][NextApp]_vars

(***************************************************************************)
(* utils.normalize_subject called on its own: on a value, then on what it  *)
(* returned.                                                               *)
(***************************************************************************)
MaxLen == 3

\* blank, tab, a letter in both cases
SubjectAlphabet == {" ", "\t", "a", "A"}

SubjectValues == UNION { [1..n -> SubjectAlphabet] : n \in 0..MaxLen } \cup {NaN}

InitNormalize ==
    /\ room_df = BundleRooms
    /\ students = <<>>
    /\ selected_rooms = <<>>
    /\ selected_day = NoDay
    /\ seating = NoSeating
    /\ summaries = NoSummaries
    /\ pc = "call"
    /\ NoQp
    /\ NoApp
    /\ call \in { [s |-> v] : v \in SubjectValues }
    /\ returned = <<>>

FnUnchanged ==
    UNCHANGED <<room_df, students, selected_rooms, selected_day, seating, summaries,
                qp_vars, app_vars>>

Normalize ==
    /\ pc = "call"
    /\ returned' = << normalize_subject(call.s) >>
    /\ pc' = "returned"
    /\ UNCHANGED call
    /\ FnUnchanged

NormalizeAgain ==
    /\ pc = "returned"
    /\ returned' = Append(returned, normalize_subject(returned[1]))
    /\ pc' = "again"
    /\ UNCHANGED call
    /\ FnUnchanged

NextNormalize == Normalize \/ NormalizeAgain

SpecNormalize == InitNormalize /\ [][NextNormalize]_vars

(***************************************************************************)
(* build_uploaded_qps called on its own, on a list of uploaded files.      *)
(***************************************************************************)
MaxFiles == 2

\* "q1.pdf", "Q1.PDF", "q1.Pdf", "Q1.pdf", "q2.pdf", "q1"
FileNames ==
    { <<"q", "1", ".", "p", "d", "f">>, <<"Q", "1", ".", "P", "D", "F">>,
      <<"q", "1", ".", "P", "d", "f">>, <<"Q", "1", ".", "p", "d", "f">>,
      <<"q", "2", ".", "p", "d", "f">>, <<"q", "1">> }

UploadedFiles == { [name |-> n, bytes |-> b] : n \in FileNames, b \in {PdfQ1, PdfQ2} }

InitUploads ==
    /\ room_df = BundleRooms
    /\ students = <<>>
    /\ selected_rooms = <<>>
    /\ selected_day = NoDay
    /\ seating = NoSeating
    /\ summaries = NoSummaries
    /\ pc = "call"
    /\ NoQp
    /\ NoApp
    /\ call \in { [qp_file_objs |-> files] :
                     files \in UNION { [1..n -> UploadedFiles] : n \in 0..MaxFiles } }
    /\ returned = <<>>

BuildUploadedQps ==
    /\ pc = "call"
    /\ returned' = << build_uploaded_qps(call.qp_file_objs) >>
    /\ pc' = "returned"
    /\ UNCHANGED call
    /\ FnUnchanged

NextUploads == BuildUploadedQps

SpecUploads == InitUploads /\ [][NextUploads]_vars

(***************************************************************************)
(* qp_generating.py, the single-file script: its "Generate Seating Plan"   *)
(* handler (lines 73-235) next to the pipeline of the modules.  Lines      *)
(* 80-129 are the body of seating.generate_seating and lines 131-187 the   *)
(* statements of qp_arrange.generate_summaries, so they are computed by    *)
(* the operators of those statements; the bundling of lines 190-225 has    *)
(* its own guard and column test and no summary rows.                      *)
(***************************************************************************)
\* qp_summary_df["Room"] (line 194) raises KeyError on a frame without that column
has_column(df, name) == \E k \in 1..Len(df.columns) : df.columns[k] = name

\* the body of "for subj, count in subject_counts.items()" (lines 202-219)
legacy_bundle_subject(item, room, mapping, uploads, acc) ==
    IF mapping.none \/ "Subject_Name" \notin mapping.columns THEN acc
    ELSE IF "QP_Code" \notin mapping.columns THEN [acc EXCEPT !.status = "KeyError"]
    ELSE LET matched == matched_codes(mapping, item.Subject)
         IN  IF Len(matched) = 0
             THEN warning(acc, [kind |-> "No QP code found", Subject |-> item.Subject,
                                Room |-> room, QP_Code |-> EmptyStr])
             ELSE LET qp_code == matched[1]
                  IN  IF qp_code \notin DOMAIN uploads
                      THEN warning(acc, [kind |-> "No uploaded PDF found",
                                         Subject |-> item.Subject, Room |-> room,
                                         QP_Code |-> qp_code])
                      ELSE IF ~uploads[qp_code].readable
                      THEN [acc EXCEPT !.status = "PdfReadError"]
                      ELSE [acc EXCEPT
                              !.writer = @ \o copies(uploads[qp_code].pages, item.count)]

RECURSIVE legacy_bundle_subjects(_, _, _, _, _)
legacy_bundle_subjects(items, room, mapping, uploads, acc) ==
    IF items = <<>> \/ acc.status # "ok" THEN acc
    ELSE legacy_bundle_subjects(Tail(items), room, mapping, uploads,
                                legacy_bundle_subject(Head(items), room, mapping, uploads, acc))

\* the body of "for room in ordered_rooms" (lines 193-225)
legacy_bundle_room(room, qp_summary, mapping, uploads, ties, acc) ==
    IF ~has_column(qp_summary, "Room") THEN [acc EXCEPT !.status = "KeyError"]
    ELSE IF room_rows(qp_summary.rows, room) = <<>> THEN acc
    ELSE LET after == legacy_bundle_subjects(
                          value_counts(room_rows(qp_summary.rows, room), ties),
                          room, mapping, uploads, [acc EXCEPT !.writer = <<>>])
         IN  IF after.status = "ok" /\ has_pages(after.writer)
             THEN [after EXCEPT !.room_pdfs = set_item(@, room, after.writer)]
             ELSE after

RECURSIVE legacy_bundle_rooms(_, _, _, _, _, _)
legacy_bundle_rooms(rooms, qp_summary, mapping, uploads, ties, acc) ==
    IF rooms = <<>> \/ acc.status # "ok" THEN acc
    ELSE legacy_bundle_rooms(Tail(rooms), qp_summary, mapping, uploads, ties,
             legacy_bundle_room(Head(rooms), qp_summary, mapping, uploads, ties, acc))

\* if mapping_df is not None and qp_files (line 191); every file gives a key
legacy_guard(mapping, qp_summary, uploads) == ~mapping.none /\ DOMAIN uploads # {}

\* lines 190-225
legacy_room_pdfs(mapping, qp_summary, uploads, ordered_rooms, ties) ==
    LET start == [status |-> "ok", room_pdfs |-> EmptyDict, warnings |-> <<>>,
                  writer |-> <<>>]
    IN  IF legacy_guard(mapping, qp_summary, uploads)
        THEN legacy_bundle_rooms(ordered_rooms, qp_summary, mapping, uploads, ties, start)
        ELSE start

\* what the handler leaves: status "error" after st.error (lines 75-78), the
\* exception raised, or "ok" with the tables and the dict stored at lines 228-235
NoOutputs(status, warnings) ==
    [status |-> status, seating_df |-> <<>>, final_df |-> NoFrame,
     summaries |-> NoSummaries, room_pdfs |-> EmptyDict, warnings |-> warnings]

\* The rosters of this model carry "Class No" and "Student Name": the test of
\* line 77 is false for them.
legacy_handler(rdf, studs, rooms, day, mapping, uploads, ties) ==
    IF rooms = <<>> THEN NoOutputs("error", <<>>)
    ELSE LET seated == generate_seating(rdf, studs, rooms, day)
             detail == qp_summary_records(seated.seating_df)
             qp_summary == frame(detail, <<"Room", "Bench", "Seat", "Subject">>)
             pdfs == legacy_room_pdfs(mapping, qp_summary, uploads, rooms, ties)
         IN  IF seated.status # "ok" THEN NoOutputs(seated.status, <<>>)
             ELSE IF pdfs.status # "ok" THEN NoOutputs(pdfs.status, pdfs.warnings)
             ELSE [status |-> "ok",
                   seating_df |-> seated.seating_df,
                   final_df |-> seated.final_df,
                   summaries |->
                       [summary_df |-> frame(summary_records(seated.seating_df, rooms),
                                             <<"Room", "Total_Students", "Subjects_in_Room">>),
                        qp_summary_df |-> qp_summary,
                        qp_count_df |-> qp_count_df(detail),
                        hall_qp_summary_df |-> hall_qp_summary_df(detail)],
                   room_pdfs |-> pdfs.room_pdfs,
                   warnings |-> pdfs.warnings]

\* Rosters whose students take MATH, PHY and MATH, or nothing
LegacyRosters ==
    UNION { { [i \in 1..n |->
                 [Class_No |-> <<Digits[i]>>, Student_Name |-> <<"s", Digits[i]>>,
                  DAY1 |-> cells[i]]] : cells \in [1..n -> {NaN, Math, PhyMath}] } :
            n \in 0..MaxDemand }

\* Mapping tables: none, MATH and PHY mapped, the subject column under another name
LegacyMappings ==
    { NoMapping,
      [none |-> FALSE, columns |-> MappingColumns,
       rows |-> << [Subject_Name |-> MATH, QP_Code |-> Q1],
                   [Subject_Name |-> PHY, QP_Code |-> Q2] >>],
      [none |-> FALSE, columns |-> {"Subject", "QP_Code"},
       rows |-> << [Subject_Name |-> MATH, QP_Code |-> Q1] >>] }

LegacyUploads == { EmptyDict, Q1 :> PdfQ1, (Q1 :> PdfQ1) @@ (Q2 :> PdfQ2) }

\* Both programs get the same inputs; call.ties is the order value_counts
\* gives equal counts in this run; returned holds what the script leaves.
InitLegacy ==
    /\ room_df = BundleRooms
    /\ students \in LegacyRosters
    /\ selected_rooms \in BundleSelections
    /\ selected_day = Day1
    /\ seating = NoSeating
    /\ summaries = NoSummaries
    /\ pc = "input"
    /\ mapping_df \in LegacyMappings
    /\ uploaded_qps \in LegacyUploads
    /\ bundles = NoBundles
    /\ NoApp
    /\ call \in { [ties |-> t] : t \in TieOrders }
    /\ returned = <<>>

\* the script of qp_generating.py with the button pressed
LegacyHandler ==
    /\ returned = <<>>
    /\ returned' = << legacy_handler(room_df, students, selected_rooms, selected_day,
                                     mapping_df, uploaded_qps, call.ties) >>
    /\ UNCHANGED <<room_df, students, selected_rooms, selected_day, seating, summaries,
                   pc, qp_vars, app_vars, call>>

\* generate_room_pdfs of the modules on the rooms of the seating run
ModularRoomPdfs ==
    /\ pc = "done"
    /\ LET result == generate_room_pdfs(mapping_df, summaries.qp_summary_df,
                                        uploaded_qps, selected_rooms, call.ties)
       IN  /\ bundles' = [status |-> result.status, room_pdfs |-> result.room_pdfs,
                          room_summary_df |-> result.room_summary_df,
                          warnings |-> result.warnings,
                          ordered_rooms |-> selected_rooms]
           /\ messages' = handler_warnings(mapping_df, uploaded_qps) \o result.warnings
           /\ pc' = IF result.status = "ok" THEN "bundled" ELSE "failed"
    /\ UNCHANGED <<room_df, students, selected_rooms, selected_day, seating, summaries,
                   mapping_df, uploaded_qps, session, fn_vars>>

NextLegacy == GenerateSeating \/ GenerateSummaries \/ ModularRoomPdfs \/ LegacyHandler

SpecLegacy == InitLegacy /\ [][NextLegacy]_vars

(***************************************************************************)
(* The whole script of app.py: the seating tab, then the QP tab with the   *)
(* "Generate Room-wise QP PDFs" button.  The session has the keys of the   *)
(* seating tab and mapping_file_obj, qp_file_objs, mapping_df,             *)
(* uploaded_qps, room_pdfs, room_qp_summary_df and generated_qp.  None is  *)
(* NoMapping for mapping_df and the empty dict for uploaded_qps (the code  *)
(* tests both for truth only); room_pdfs and room_qp_summary_df are set    *)
(* together with generated_qp (lines 395-397) and hold the empty dict and  *)
(* the empty frame before.                                                 *)
(***************************************************************************)
\* mapping files: the table as it is in the file, not yet normalized
RawMapping ==
    [none |-> FALSE, columns |-> MappingColumns,
     rows |-> << [Subject_Name |-> <<" ", "m", "a", "t", "h">>, QP_Code |-> <<"q", "1">>],
                 [Subject_Name |-> <<"P", "h", "y">>, QP_Code |-> <<"Q", "2", " ">>] >>]

MappingFiles == {NoFile, RawMapping}

\* lists of saved papers: none, q1.pdf and q2.pdf
QpFileLists ==
    { <<>>,
      << [name |-> <<"q", "1", ".", "p", "d", "f">>, bytes |-> PdfQ1],
         [name |-> <<"q", "2", ".", "p", "d", "f">>, bytes |-> PdfQ2] >> }

SessionStudentFiles ==
    { [none |-> FALSE, columns |-> {"Class_No", "Student_Name", "DAY1"},
       rows |-> RosterOf(<<Math, PhyMath, Math>>)],
      [none |-> FALSE, columns |-> {"Class_No", "Student_Name", "DAY1"},
       rows |-> RosterOf(<<PhyMath>>)] }

SessionRoomFiles ==
    { [none |-> FALSE, columns |-> {"Room", "Start", "End"}, rows |-> BundleRooms],
      [none |-> FALSE, columns |-> {"Hall", "Start", "End"}, rows |-> BundleRooms] }

\* the defaults of lines 16-40
FullSession ==
    [room_file_obj |-> NoFile, student_file_obj |-> NoFile,
     mapping_file_obj |-> NoFile, qp_file_objs |-> <<>>,
     select_rooms |-> <<>>, selected_rooms |-> <<>>, selected_day |-> NoDay,
     stored |-> NoStored, generated_seating |-> FALSE,
     mapping_df |-> NoMapping, uploaded_qps |-> EmptyDict,
     room_pdfs |-> EmptyDict, room_qp_summary_df |-> NoFrame, generated_qp |-> FALSE]

\* save_uploaded_files with its four arguments (lines 45-53)
save_all_files(s, room_file, student_file, mapping_file, qp_files) ==
    [save_uploaded_files(s, room_file, student_file) EXCEPT
        !.mapping_file_obj = IF mapping_file.none THEN @ ELSE mapping_file,
        !.qp_file_objs = IF qp_files = <<>> THEN @ ELSE qp_files]

\* lines 335-339: QP Code upper-cased and stripped, Subject Name normalized
parse_mapping(mf) ==
    [none |-> FALSE, columns |-> mf.columns,
     rows |-> [i \in 1..Len(mf.rows) |->
                  [Subject_Name |-> IF "Subject_Name" \in mf.columns
                                    THEN normalize_subject(mf.rows[i].Subject_Name)
                                    ELSE mf.rows[i].Subject_Name,
                   QP_Code |-> IF "QP_Code" \in mf.columns
                               THEN strip(upper(mf.rows[i].QP_Code))
                               ELSE mf.rows[i].QP_Code]]]

\* ordered_rooms = st.session_state.get("selected_rooms") or []
qp_tab_ordered_rooms(s) == s.selected_rooms

\* lines 331-347: the mapping file is parsed and the papers are keyed again in
\* every run
qp_tab_parse(s) ==
    [s EXCEPT !.mapping_df = IF s.mapping_file_obj.none THEN @
                             ELSE parse_mapping(s.mapping_file_obj),
              !.uploaded_qps = IF s.qp_file_objs = <<>> THEN @
                               ELSE build_uploaded_qps(s.qp_file_objs)]

\* the st.warning calls of lines 381-384 and of generate_room_pdfs
qp_tab_warnings(s, result) ==
    [k \in 1..Len(handler_warnings(s.mapping_df, s.uploaded_qps)) |->
        message("warning", handler_warnings(s.mapping_df, s.uploaded_qps)[k].kind)]
    \o [k \in 1..Len(result.warnings) |-> message("warning", result.warnings[k].kind)]

\* lines 349-399 on the session after qp_tab_parse; pressed says whether the
\* run was started by the "Generate Room-wise QP PDFs" button, result is what
\* generate_room_pdfs gives in this run
qp_tab(s, pressed, result) ==
    IF ~s.generated_seating
    THEN [session |-> s, messages |-> << message("info", "Please generate seating") >>]
    ELSE IF ~pressed
    THEN [session |-> s, messages |-> <<>>]
    ELSE IF result.status # "ok"
    THEN [session |-> s,
          messages |-> qp_tab_warnings(s, result) \o << message("exception", result.status) >>]
    ELSE [session |-> [s EXCEPT !.room_pdfs = result.room_pdfs,
                                !.room_qp_summary_df = result.room_summary_df,
                                !.generated_qp = TRUE],
          messages |-> qp_tab_warnings(s, result)
                       \o << message("success", "Room-wise QP PDFs") >>]

raised(msgs) == \E k \in 1..Len(msgs) : msgs[k].kind = "exception"

\* One run of the script from session s: the seating tab, then the QP tab; an
\* exception in the seating tab ends the run before the QP tab.  press is
\* "none", "gen_seating" or "gen_qp_pdfs"; shown are the messages of the
\* uploads tab.
script(s, press, ties, shown) ==
    \E first \in { seating_tab(s, press = "gen_seating") } :
        IF raised(first.messages)
        THEN session' = first.session /\ messages' = shown \o first.messages
        ELSE \E parsed \in { qp_tab_parse(first.session) } :
             \E result \in { generate_room_pdfs(parsed.mapping_df,
                                                parsed.stored.summaries.qp_summary_df,
                                                parsed.uploaded_qps,
                                                qp_tab_ordered_rooms(parsed), ties) } :
             \E second \in { qp_tab(parsed, press = "gen_qp_pdfs", result) } :
                /\ session' = second.session
                /\ messages' = shown \o first.messages \o second.messages

InitSession ==
    /\ room_df = BundleRooms
    /\ students = <<>>
    /\ selected_rooms = <<>>
    /\ selected_day = NoDay
    /\ seating = NoSeating
    /\ summaries = NoSummaries
    /\ pc = "app"
    /\ NoQp
    /\ session = FullSession
    /\ messages = <<>>
    /\ NoCall

\* "Save All Files to Session" in a fresh session, then the rest of the script;
\* the files stay as they are for the rest of the session
SaveAllFiles ==
    /\ pc = "app"
    /\ session = FullSession
    /\ \E room_file \in SessionRoomFiles \cup {NoFile},
          student_file \in SessionStudentFiles \cup {NoFile},
          mapping_file \in MappingFiles, qp_files \in QpFileLists :
          script(save_all_files(session, room_file, student_file, mapping_file, qp_files),
                 "none", "first", << message("success", "Files saved") >>)
    /\ AppUnchanged

\* a change of the multiselect, shown when both files are parsed
ChangeSelection ==
    /\ pc = "app"
    /\ ~session.room_file_obj.none /\ ~session.student_file_obj.none
    /\ "Room" \in session.room_file_obj.columns
    /\ \E select_rooms \in WidgetSelections :
          script([session EXCEPT !.select_rooms = select_rooms], "none", "first", <<>>)
    /\ AppUnchanged

\* a press of "Generate Seating Plan", shown when both files are parsed
PressSeatingButton ==
    /\ pc = "app"
    /\ ~session.room_file_obj.none /\ ~session.student_file_obj.none
    /\ script(session, "gen_seating", "first", <<>>)
    /\ AppUnchanged

\* a press of "Generate Room-wise QP PDFs", shown when generated_seating is set
PressQpButton ==
    /\ pc = "app"
    /\ session.generated_seating
    /\ \E ties \in TieOrders : script(session, "gen_qp_pdfs", ties, <<>>)
    /\ AppUnchanged

NextSession == SaveAllFiles \/ ChangeSelection \/ PressSeatingButton \/ PressQpButton

SpecSession == InitSession /\ [][NextSession]_vars

(***************************************************************************)
(* remark_generator.generate_remark_sheets, the sheet of one room: the     *)
(* row expansion (lines 86-108) and the seating cells (lines 110-135).     *)
(* A worksheet is a function from <<row, column>> to the value of the      *)
(* cell; a value is [int, str], a number or a text.  room_data has the     *)
(* rows (Bench, Seat, Class No) of the room, Bench an int as               *)
(* generate_seating writes it (pd.to_numeric leaves it as it is).          *)
(***************************************************************************)
MaxBenches == 4

START_ROW == 7

text(s) == [int |-> 0, str |-> s]

number(n) == [int |-> n, str |-> <<>>]

ClassText == <<"C", "l", "a", "s", "s">>

\* ws.max_row
max_row(ws) ==
    IF DOMAIN ws = {} THEN 1
    ELSE CHOOSE r \in { p[1] : p \in DOMAIN ws } : \A p \in DOMAIN ws : p[1] <= r

\* val and str(val).strip() == "Class", for the cell of column 1 in row r
is_class_cell(ws, r) ==
    /\ <<r, 1>> \in DOMAIN ws
    /\ strip(ws[<<r, 1>>].str) = ClassText

\* lines 90-95: the first row from START_ROW on that starts with "Class", else 25
find_footer_header_row(ws) ==
    LET hits == { r \in START_ROW..max_row(ws) : is_class_cell(ws, r) }
    IN  IF hits = {} THEN 25 ELSE CHOOSE r \in hits : \A q \in hits : r <= q

\* ws.insert_rows(idx, amount): the cells from row idx on move down
insert_rows(ws, idx, amount) ==
    LET moved == { IF p[1] >= idx THEN <<p[1] + amount, p[2]>> ELSE p : p \in DOMAIN ws }
    IN  [q \in moved |-> IF q[1] >= idx + amount THEN ws[<<q[1] - amount, q[2]>>]
                         ELSE ws[q]]

\* ws.cell(row=r, column=c, value=v)
set_cell(ws, r, c, v) ==
    [q \in DOMAIN ws \cup {<<r, c>>} |-> IF q = <<r, c>> THEN v ELSE ws[q]]

\* room_data['Bench'].min() and .max()
min_bench(room_data) ==
    CHOOSE b \in { room_data[k].Bench : k \in 1..Len(room_data) } :
        \A k \in 1..Len(room_data) : b <= room_data[k].Bench

max_bench(room_data) ==
    CHOOSE b \in { room_data[k].Bench : k \in 1..Len(room_data) } :
        \A k \in 1..Len(room_data) : room_data[k].Bench <= b

expand_rows_footer_not_moved(ws, room_data) ==
    LET footer_header_row == find_footer_header_row(ws)
        needed_rows == (max_bench(room_data) - min_bench(room_data)) + 1
        available_rows == footer_header_row - START_ROW
        rows_to_add == needed_rows - available_rows + 2
    IN  IF needed_rows > available_rows
        THEN [ws |-> insert_rows(ws, footer_header_row, rows_to_add),
              footer_header_row |-> footer_header_row]
        ELSE [ws |-> ws, footer_header_row |-> footer_header_row]

\* lines 87-108
expand_rows(ws, room_data) ==
    LET footer_header_row == find_footer_header_row(ws)
        needed_rows == (max_bench(room_data) - min_bench(room_data)) + 1
        available_rows == footer_header_row - START_ROW
        rows_to_add == needed_rows - available_rows + 2
    IN  IF needed_rows > available_rows
        THEN [ws |-> insert_rows(ws, footer_header_row, rows_to_add),
              footer_header_row |-> footer_header_row + rows_to_add]
        ELSE [ws |-> ws, footer_header_row |-> footer_header_row]

\* lines 128-131; 0 is None
target_col(seat_pos) ==
    CASE seat_pos = "Left" -> 2 [] seat_pos = "Center" -> 4 [] seat_pos = "Right" -> 6
      [] OTHER -> 0

\* lines 121-135 for the rows of one bench
RECURSIVE fill_students(_, _, _)
fill_students(ws, bench_students, current_row) ==
    IF bench_students = <<>> THEN ws
    ELSE LET student == Head(bench_students)
             class_no == strip(student.Class_No)
             skipped == class_no = Dash \/ class_no = <<>> \/ class_no = <<"n", "a", "n">>
         IN  fill_students(IF ~skipped /\ target_col(student.Seat) # 0
                           THEN set_cell(ws, current_row, target_col(student.Seat),
                                         text(class_no))
                           ELSE ws,
                           Tail(bench_students), current_row)

\* lines 111-135 from bench_num on
RECURSIVE fill_benches(_, _, _)
fill_benches(ws, room_data, bench_num) ==
    IF bench_num > max_bench(room_data) THEN ws
    ELSE LET current_row == START_ROW + (bench_num - min_bench(room_data))
             with_seat_no == set_cell(ws, current_row, 1, number(bench_num))
             bench_students == SelectSeq(room_data, LAMBDA r : r.Bench = bench_num)
         IN  fill_benches(fill_students(with_seat_no, bench_students, current_row),
                          room_data, bench_num + 1)

fill_seating(ws, room_data) == fill_benches(ws, room_data, min_bench(room_data))

\* Templates: the date label, the footer header "Class" in column 1 of row k
\* (once written " Class") and the "Total Students" label two rows below; one
\* has no footer header and one has it above START_ROW.
FooterRows == 7..(7 + MaxBenches + 1)

Template(k, label) ==
    (<<3, 1>> :> text(<<"D", "a", "t", "e">>))
    @@ (<<k, 1>> :> text(label))
    @@ (<<k + 2, 1>> :> text(<<"T", "o", "t", "a", "l">>))

Templates ==
    { Template(k, ClassText) : k \in FooterRows }
    \cup { Template(9, <<" ">> \o ClassText), Template(9, <<"E", "n", "d">>),
           Template(5, ClassText) }

\* the seating rows of a room with benches first..last, the first filled
\* slots of it taken (Left of every bench, then Right, then Center)
RoomData(first, last, taken) ==
    LET n == last - first + 1
    IN  [k \in 1..(3 * n) |->
            [Bench |-> first + ((k - 1) % n),
             Seat |-> seats[((k - 1) \div n) + 1],
             Class_No |-> IF k <= taken THEN <<Digits[((k - 1) % 9) + 1]>> ELSE Dash]]

InitRemark ==
    /\ room_df = BundleRooms
    /\ students = <<>>
    /\ selected_rooms = <<>>
    /\ selected_day = NoDay
    /\ seating = NoSeating
    /\ summaries = NoSummaries
    /\ pc = "template"
    /\ NoQp
    /\ NoApp
    /\ \E ws \in Templates, first \in 1..2 :
          \E last \in first..(first + MaxBenches - 1), taken \in {0, 2, 3 * MaxBenches} :
             call = [ws |-> ws, room_data |-> RoomData(first, last, taken)]
    /\ returned = <<>>

\* the row expansion on the copy of the template
ExpandRows ==
    /\ pc = "template"
    /\ returned' = << expand_rows(call.ws, call.room_data) >>
    /\ pc' = "expanded"
    /\ UNCHANGED <<room_df, students, selected_rooms, selected_day, seating, summaries,
                   qp_vars, app_vars, call>>

\* the seating cells
FillSeating ==
    /\ pc = "expanded"
    /\ returned' = << [returned[1] EXCEPT !.ws = fill_seating(@, call.room_data)] >>
    /\ pc' = "filled"
    /\ UNCHANGED <<room_df, students, selected_rooms, selected_day, seating, summaries,
                   qp_vars, app_vars, call>>

NextRemark == ExpandRows \/ FillSeating

SpecRemark == InitRemark /\ [][NextRemark]_vars

(***************************************************************************)
(* Properties.                                                             *)
(***************************************************************************)
Returned == seating.status = "ok"

Called == pc # "input"

sdf == seating.seating_df

RECURSIVE SumSeq(_)
SumSeq(xs) == IF xs = <<>> THEN 0 ELSE Head(xs) + SumSeq(Tail(xs))

Min(a, b) == IF a < b THEN a ELSE b

\* (End - Start + 1) * 3 of the room's row of the table
Capacity(room) == (room_row(room_df, room).End - room_row(room_df, room).Start + 1) * 3

TotalCapacity == SumSeq([k \in 1..Len(selected_rooms) |-> Capacity(selected_rooms[k])])

BenchesOf(room) == room_row(room_df, room).Start .. room_row(room_df, room).End

SeatPositions == {"Left", "Center", "Right"}

SelectedSet == {selected_rooms[k] : k \in 1..Len(selected_rooms)}

\* the slots of one (room, bench, seat position) triple
SlotsAt(room, bench, seat) ==
    {k \in 1..Len(sdf) : sdf[k].Room = room /\ sdf[k].Bench = bench /\ sdf[k].Seat = seat}

PositionOf(room) == CHOOSE k \in 1..Len(selected_rooms) : selected_rooms[k] = room

\* C1: the seat table generate_seating returns has sum (End - Start + 1) * 3 rows,
\* summed over the entries of selected_rooms.
C1_SlotCount == Returned => Len(sdf) = TotalCapacity

C1_Witness == pc = "seated" /\ Len(selected_rooms) = 2 /\ Len(sdf) = 9

SeatRank(seat) == CASE seat = "Left" -> 1 [] seat = "Right" -> 2 [] seat = "Center" -> 3

\* slot a comes before slot b in the block-interleaved enumeration
BlockBefore(a, b) ==
    \/ SeatRank(a.Seat) < SeatRank(b.Seat)
    \/ /\ a.Seat = b.Seat
       /\ \/ PositionOf(a.Room) < PositionOf(b.Room)
          \/ a.Room = b.Room /\ a.Bench < b.Bench

\* C2: the returned slots are the block-interleaved enumeration: every triple of
\* every selected room, all Left before all Right before all Center, rooms in
\* selection order within a seat position, benches ascending within a room.
C2_BlockInterleaved ==
    Returned =>
        /\ \A i, j \in 1..Len(sdf) : i < j => BlockBefore(sdf[i], sdf[j])
        /\ {<<sdf[k].Room, sdf[k].Bench, sdf[k].Seat>> : k \in 1..Len(sdf)}
             = UNION {{<<r, b, p>> : b \in BenchesOf(r), p \in SeatPositions} :
                         r \in SelectedSet}

\* two rooms, the first with two benches: the second slot is bench 2 of the first
\* room (not the Right seat of bench 1), and the Right block precedes the Center block
C2_Witness ==
    /\ pc = "seated"
    /\ selected_rooms = <<RoomB, RoomA>>
    /\ Len(sdf) = 9
    /\ sdf[2].Bench = 2 /\ sdf[2].Seat = "Left" /\ sdf[3].Room = RoomA
    /\ sdf[4].Seat = "Right" /\ sdf[7].Seat = "Center"

\* C3: slot i holds roster row i while the roster lasts and "-" after it; a roster
\* row sits in exactly one slot if its index is below the slot count and in none
\* otherwise; a roster longer than the capacity raises nothing.
C3_IndexAssignment ==
    /\ Returned =>
          /\ \A i \in 1..Len(sdf) :
                IF i <= Len(students)
                THEN /\ sdf[i].Class_No = students[i].Class_No
                     /\ sdf[i].Student_Name = students[i].Student_Name
                ELSE /\ sdf[i].Class_No = Dash
                     /\ sdf[i].Student_Name = Dash
                     /\ sdf[i].Subjects = Dash
          /\ \A i \in 1..Len(students) :
                Cardinality({k \in 1..Len(sdf) : sdf[k].Class_No = students[i].Class_No})
                    = IF i <= TotalCapacity THEN 1 ELSE 0
    /\ (Called /\ ~has_duplicates(selected_rooms)) => Returned

C3_Witness ==
    /\ pc = "seated"
    /\ Len(students) > Len(sdf)
    /\ sdf[Len(sdf)].Class_No = students[Len(sdf)].Class_No

\* each triple of each selected room has exactly one slot
OneSlotPerTriple ==
    \A r \in SelectedSet : \A b \in BenchesOf(r) : \A p \in SeatPositions :
        Cardinality(SlotsAt(r, b, p)) = 1

C5_SeatedCount ==
    pc = "done" =>
        LET rows == summaries.summary_df.rows
            seated == SumSeq([k \in 1..Len(rows) |-> rows[k].Total_Students])
        IN  /\ seated = Min(Len(students), TotalCapacity)
            /\ Len(students) > TotalCapacity => seated < Len(students)

C5_Witness ==
    /\ pc = "done"
    /\ Len(students) > TotalCapacity
    /\ summaries.summary_df.rows[1].Total_Students = 3

\* the claim's recipe for a day cell: split on commas, normalize every piece,
\* drop the empty ones
NormalizedTokens(raw) == SelectSeq(map_normalize(split(raw)), nonempty)

SubjectsAsClaimed(info, day) ==
    IF day # NoDay /\ notna(info[day]) /\ NormalizedTokens(info[day]) # <<>>
    THEN join(CommaSpace, NormalizedTokens(info[day]))
    ELSE Dash

\* C6: the Subjects of a filled slot are the normalized non-empty tokens of the
\* student's cell of the selected day joined with ", ", and "-" when no token
\* survives, no day is selected or the cell is missing.
C6_Subjects ==
    Returned =>
        \A i \in 1..Min(Len(sdf), Len(students)) :
            sdf[i].Subjects = SubjectsAsClaimed(students[i], selected_day)

C6_Witness ==
    /\ pc = "seated"
    /\ Len(students) = 4
    /\ Len(sdf) >= 4
    /\ sdf[1].Subjects = <<"P", "H", "Y", ",", " ", "M", "A", "T", "H">>
    /\ students[2].DAY1 = Blank /\ sdf[2].Subjects = Dash
    /\ students[3].DAY1 = NaN /\ sdf[3].Subjects = Dash
    /\ sdf[4].Subjects = <<"M", "A", "T", "H">>

\* C7: the pivot grid has the columns Room, Bench, Left, Center, Right and one row
\* per (room, bench) pair of the slots; a cell holds the Class No of the slot of
\* that (room, bench, seat), "-" for an unfilled slot; the rows run by room in
\* selection order, then by bench ascending.
C7_Pivot ==
    Returned =>
        LET grid == seating.final_df.rows
        IN  /\ seating.final_df.columns = <<"Room", "Bench", "Left", "Center", "Right">>
            /\ {<<grid[g].Room, grid[g].Bench>> : g \in 1..Len(grid)}
                 = {<<sdf[k].Room, sdf[k].Bench>> : k \in 1..Len(sdf)}
            /\ \A g, h \in 1..Len(grid) :
                  g < h =>
                    \/ PositionOf(grid[g].Room) < PositionOf(grid[h].Room)
                    \/ grid[g].Room = grid[h].Room /\ grid[g].Bench < grid[h].Bench
            /\ \A g \in 1..Len(grid) : \A k \in 1..Len(sdf) :
                  (sdf[k].Room = grid[g].Room /\ sdf[k].Bench = grid[g].Bench) =>
                      grid[g][sdf[k].Seat] = sdf[k].Class_No

\* rooms selected against the alphabet, one cell filled and one not on a bench
C7_Witness ==
    /\ pc = "seated"
    /\ selected_rooms = <<RoomB, RoomA>>
    /\ Len(seating.final_df.rows) = 3
    /\ seating.final_df.rows[1].Room = RoomB
    /\ seating.final_df.rows[1].Right = <<"4">>
    /\ seating.final_df.rows[1].Center = Dash
    /\ seating.final_df.rows[3].Room = RoomA

\* C8: room_summary has one row per entry of ordered_rooms, in that order, and
\* Total Students counts the room's slots whose Class No is not "-".
C8_RoomSummary ==
    pc = "done" =>
        LET rows == summaries.summary_df.rows
        IN  /\ Len(rows) = Len(selected_rooms)
            /\ \A k \in 1..Len(rows) :
                  /\ rows[k].Room = selected_rooms[k]
                  /\ rows[k].Total_Students =
                        Cardinality({i \in 1..Len(sdf) :
                            sdf[i].Room = selected_rooms[k] /\ sdf[i].Class_No # Dash})

C8_Witness ==
    /\ pc = "done"
    /\ selected_rooms = <<RoomB, RoomA>>
    /\ summaries.summary_df.rows[1].Total_Students = 3
    /\ summaries.summary_df.rows[2].Total_Students = 1

\* the subjects of the students seated in a room, from the roster
SubjectsSeatedIn(room) ==
    UNION {{NormalizedTokens(students[i].DAY1)[j] :
               j \in 1..Len(NormalizedTokens(students[i].DAY1))} :
           i \in {k \in 1..Min(Len(sdf), Len(students)) :
                      /\ sdf[k].Room = room
                      /\ sdf[k].Subjects # Dash
                      /\ selected_day # NoDay
                      /\ notna(students[k].DAY1)}}

\* the elements of a set of str in ascending order
RECURSIVE Ascending(_)
Ascending(S) ==
    IF S = {} THEN <<>>
    ELSE LET least == CHOOSE x \in S : \A y \in S \ {x} : str_lt(x, y)
         IN  <<least>> \o Ascending(S \ {least})

\* C9: Subjects in Room lists the distinct normalized subjects of the room's
\* slots in ascending order, joined with ", "; a room without any subject has
\* its row with the empty string.
C9_SubjectsInRoom ==
    pc = "done" =>
        LET rows == summaries.summary_df.rows
        IN  \A k \in 1..Len(rows) :
                rows[k].Subjects_in_Room =
                    join(CommaSpace, Ascending(SubjectsSeatedIn(selected_rooms[k])))

\* rooms A (benches 1-2) and B (bench 1), only student 1 has "Math", room B has a
\* seated student: A shows "MATH" and B shows ""
C9_Witness ==
    /\ pc = "done"
    /\ selected_rooms = <<RoomA, RoomB>>
    /\ Len(room_df) = 2
    /\ Len(students) = 4
    /\ students[1].DAY1 = Math
    /\ \A i \in 2..4 : students[i].DAY1 = NaN
    /\ summaries.summary_df.rows[1].Subjects_in_Room = <<"M", "A", "T", "H">>
    /\ summaries.summary_df.rows[2].Subjects_in_Room = EmptyStr
    /\ summaries.summary_df.rows[2].Total_Students = 1

\* the rows of qp_detail the claim lists: slot by slot, the tokens generate_seating
\* put into the slot's Subjects, for the slots whose Subjects is not "-"
DetailAsClaimed ==
    concat([i \in 1..Len(sdf) |->
        IF sdf[i].Subjects = Dash THEN <<>>
        ELSE LET toks == subject_list(students[i].DAY1)
             IN  [j \in 1..Len(toks) |->
                     [Room |-> sdf[i].Room, Bench |-> sdf[i].Bench,
                      Seat |-> sdf[i].Seat, Subject |-> toks[j]]]])

\* C10: qp_detail has one row per slot and entry of the slot's subject list, in
\* slot order and then list order, for the slots whose Subjects is not "-"; and
\* splitting and normalizing a written Subjects string again gives back the
\* token list generate_seating produced.
C10_QpDetail ==
    pc = "done" =>
        /\ summaries.qp_summary_df.rows = DetailAsClaimed
        /\ \A i \in 1..Len(sdf) :
              sdf[i].Subjects # Dash =>
                  subject_tokens(sdf[i].Subjects) = subject_list(students[i].DAY1)

C10_Witness ==
    /\ pc = "done"
    /\ students # <<>>
    /\ students[1].DAY1 = PhyMath
    /\ Len(summaries.qp_summary_df.rows) >= 3
    /\ summaries.qp_summary_df.rows[1].Subject = <<"P", "H", "Y">>
    /\ summaries.qp_summary_df.rows[2].Subject = <<"M", "A", "T", "H">>
    /\ summaries.qp_summary_df.rows[2].Bench = summaries.qp_summary_df.rows[1].Bench
    /\ summaries.qp_summary_df.rows[2].Seat = "Left"


(***************************************************************************)
(* Question paper counts (generate_summaries, qp_count and hall_summary).  *)
(***************************************************************************)
detail_rows == summaries.qp_summary_df.rows

count_rows == summaries.qp_count_df.rows

hall_rows == summaries.hall_qp_summary_df.rows

DetailKeys == { [Room |-> detail_rows[i].Room, Subject |-> detail_rows[i].Subject] :
                   i \in 1..Len(detail_rows) }

DetailCount(room, subject) ==
    Cardinality({ i \in 1..Len(detail_rows) :
                     detail_rows[i].Room = room /\ detail_rows[i].Subject = subject })

\* C11: once the summaries are generated, qp_count has exactly one row per
\* (room, subject) pair of qp_detail, its QP_Needed is the number of qp_detail
\* rows of that pair, and hall_summary has the same pairs in the same order
\* with the same number as Total_QPs_Needed.
C11_QpCount ==
    pc = "done" =>
        /\ { [Room |-> count_rows[g].Room, Subject |-> count_rows[g].Subject] :
                g \in 1..Len(count_rows) } = DetailKeys
        /\ Len(count_rows) = Cardinality(DetailKeys)
        /\ \A g \in 1..Len(count_rows) :
               count_rows[g].QP_Needed = DetailCount(count_rows[g].Room, count_rows[g].Subject)
        /\ Len(hall_rows) = Len(count_rows)
        /\ \A g \in 1..Len(hall_rows) :
               /\ hall_rows[g].Room = count_rows[g].Room
               /\ hall_rows[g].Subject = count_rows[g].Subject
               /\ hall_rows[g].Total_QPs_Needed = count_rows[g].QP_Needed

\* two rooms need the same subject, one of them twice
C11_Witness ==
    /\ pc = "done"
    /\ \E g, h \in 1..Len(count_rows) :
           /\ count_rows[g].Room # count_rows[h].Room
           /\ count_rows[g].Subject = count_rows[h].Subject
           /\ count_rows[g].QP_Needed = 2
           /\ count_rows[h].QP_Needed = 1

\* the students seated in a room whose subject list holds the subject
StudentsNeeding(room, subject) ==
    { i \in 1..Len(sdf) :
         /\ sdf[i].Room = room
         /\ sdf[i].Class_No # Dash
         /\ \E k \in 1..Len(subject_tokens(sdf[i].Subjects)) :
                subject_tokens(sdf[i].Subjects)[k] = subject }

\* C12: QP_Needed of a (room, subject) pair equals the number of distinct
\* students seated in that room whose subject list contains the subject.
C12_DistinctStudents ==
    pc = "done" =>
        \A g \in 1..Len(count_rows) :
            count_rows[g].QP_Needed =
                Cardinality(StudentsNeeding(count_rows[g].Room, count_rows[g].Subject))

NoSlotHasSubject == \A i \in 1..Len(sdf) : sdf[i].Subjects = Dash

\* C13 as stated: with no subject in any slot, all four frames come back with
\* zero rows and their columns.
C13_AsStated ==
    (pc = "done" /\ NoSlotHasSubject) =>
        /\ summaries.summary_df =
               [columns |-> <<"Room", "Total_Students", "Subjects_in_Room">>, rows |-> <<>>]
        /\ summaries.qp_summary_df =
               [columns |-> <<"Room", "Bench", "Seat", "Subject">>, rows |-> <<>>]
        /\ summaries.qp_count_df =
               [columns |-> <<"Room", "Subject", "QP_Needed", "Bench_Seat_Locations">>,
                rows |-> <<>>]
        /\ summaries.hall_qp_summary_df =
               [columns |-> <<"Room", "Subject", "Total_QPs_Needed">>, rows |-> <<>>]

\* C13: with no subject in any slot, qp_count and hall_summary have zero rows
\* and their columns, qp_detail has zero rows and no columns, and room_summary
\* still has one row per selected room, with "" as Subjects in Room.
C13_EmptyOutputs ==
    (pc = "done" /\ NoSlotHasSubject) =>
        /\ summaries.qp_count_df =
               [columns |-> <<"Room", "Subject", "QP_Needed", "Bench_Seat_Locations">>,
                rows |-> <<>>]
        /\ summaries.hall_qp_summary_df =
               [columns |-> <<"Room", "Subject", "Total_QPs_Needed">>, rows |-> <<>>]
        /\ summaries.qp_summary_df = [columns |-> <<>>, rows |-> <<>>]
        /\ summaries.summary_df.columns = <<"Room", "Total_Students", "Subjects_in_Room">>
        /\ Len(summaries.summary_df.rows) = Len(selected_rooms)
        /\ \A r \in 1..Len(selected_rooms) :
               /\ summaries.summary_df.rows[r].Room = selected_rooms[r]
               /\ summaries.summary_df.rows[r].Subjects_in_Room = EmptyStr

\* students are seated in two rooms and no day is selected
C13_Witness ==
    /\ pc = "done"
    /\ NoSlotHasSubject
    /\ Len(selected_rooms) = 2
    /\ \E i \in 1..Len(sdf) : sdf[i].Class_No # Dash

(***************************************************************************)
(* Room bundles (generate_room_pdfs).                                      *)
(***************************************************************************)
Bundled == pc = "bundled"

OrderedRoomSet == { bundles.ordered_rooms[k] : k \in 1..Len(bundles.ordered_rooms) }

\* the subjects some qp_detail row of the room asks for
DemandOf(room) ==
    { detail_rows[i].Subject : i \in { j \in 1..Len(detail_rows) : detail_rows[j].Room = room } }

Mapped(subj) ==
    \E k \in 1..Len(mapping_df.rows) : mapping_df.rows[k].Subject_Name = subj

\* the QP code of the first mapping row of the subject
CodeOf(subj) ==
    mapping_df.rows[CHOOSE k \in 1..Len(mapping_df.rows) :
                       /\ mapping_df.rows[k].Subject_Name = subj
                       /\ \A j \in 1..(k - 1) : mapping_df.rows[j].Subject_Name # subj].QP_Code

Resolved(subj) == Mapped(subj) /\ CodeOf(subj) \in DOMAIN uploaded_qps

ResolvedOf(room) == { subj \in DemandOf(room) : Resolved(subj) }

SourcePages(subj) == uploaded_qps[CodeOf(subj)].pages

\* n copies of the pages, one after the other
Repeat(pages, n) ==
    [i \in 1..(n * Len(pages)) |-> pages[((i - 1) % Len(pages)) + 1]]

RECURSIVE Blocks(_, _)
Blocks(order, room) ==
    IF order = <<>> THEN <<>>
    ELSE Repeat(SourcePages(Head(order)), DetailCount(room, Head(order)))
             \o Blocks(Tail(order), room)

Orders(subjects) ==
    { order \in [1..Cardinality(subjects) -> subjects] :
         \A i, j \in 1..Cardinality(subjects) : order[i] = order[j] => i = j }

RECURSIVE SumPages(_, _)
SumPages(subjects, room) ==
    IF subjects = {} THEN 0
    ELSE LET subj == CHOOSE x \in subjects : TRUE
         IN  DetailCount(room, subj) * Len(SourcePages(subj))
                 + SumPages(subjects \ {subj}, room)

DocumentOf(room) ==
    IF room \in DOMAIN bundles.room_pdfs THEN bundles.room_pdfs[room] ELSE <<>>

\* C14: when the call returns, the pages assembled for a room of ordered_rooms
\* are, for each resolved subject of the room, as many whole copies of its
\* source PDF as qp_detail has rows for (room, subject), the copies of a
\* subject in one block with the page order of the source; the page count is
\* the sum of count * page_count over the resolved subjects.
C14_Copies ==
    Bundled =>
        \A room \in OrderedRoomSet :
            /\ Len(DocumentOf(room)) = SumPages(ResolvedOf(room), room)
            /\ \E order \in Orders(ResolvedOf(room)) :
                   DocumentOf(room) = Blocks(order, room)

\* a room with two resolved subjects, one of them needed twice with a paper of
\* two pages
C14_Witness ==
    /\ Bundled
    /\ \E room \in OrderedRoomSet :
          /\ Cardinality(ResolvedOf(room)) = 2
          /\ \E subj \in ResolvedOf(room) :
                DetailCount(room, subj) = 2 /\ Len(SourcePages(subj)) = 2
          /\ Len(DocumentOf(room)) >= 5

Warned(kind, subj, room) ==
    \E k \in 1..Len(bundles.warnings) :
        /\ bundles.warnings[k].kind = kind
        /\ bundles.warnings[k].Subject = subj
        /\ bundles.warnings[k].Room = room

bundle_rows == bundles.room_summary_df.rows

InSummary(room, subj) ==
    \E k \in 1..Len(bundle_rows) : bundle_rows[k].Room = room /\ bundle_rows[k].Subject = subj

\* how often ordered_rooms names the room
TimesListed(room) ==
    Cardinality({ k \in 1..Len(bundles.ordered_rooms) : bundles.ordered_rooms[k] = room })

\* the subject is in the room's summary with its code and its number of papers,
\* counted once for each time the room is listed
BundledAs(room, subj) ==
    \E k \in 1..Len(bundle_rows) :
        /\ bundle_rows[k].Room = room
        /\ bundle_rows[k].Subject = subj
        /\ bundle_rows[k].QP_Code = CodeOf(subj)
        /\ bundle_rows[k].Students = DetailCount(room, subj) * TimesListed(room)

\* a subject of a processed room the given mapping table has no row for
Unmapped(room, subj) ==
    /\ ~mapping_df.none
    /\ room \in OrderedRoomSet
    /\ subj \in DemandOf(room)
    /\ ~Mapped(subj)

ExcludedAndOthersBundled(room, subj) ==
    /\ ~InSummary(room, subj)
    /\ Len(DocumentOf(room)) = SumPages(ResolvedOf(room), room)
    /\ \A other \in ResolvedOf(room) : BundledAs(room, other)

NotUploaded(room, subj) ==
    /\ room \in OrderedRoomSet
    /\ subj \in DemandOf(room)
    /\ Mapped(subj)
    /\ CodeOf(subj) \notin DOMAIN uploaded_qps

Shown(kind) == \E k \in 1..Len(messages) : messages[k].kind = kind

C17_AsStated ==
    Bundled =>
        \A room \in {RoomA, RoomB} :
            room \in DOMAIN bundles.room_pdfs <=>
                (room \in OrderedRoomSet /\ ResolvedOf(room) # {})

\* C17: a room is a key of room_pdfs exactly when it was processed and one of
\* its resolved subjects has a source PDF with at least one page; no document
\* of the map is without pages.
C17_RoomKeys ==
    Bundled =>
        \A room \in {RoomA, RoomB} :
            /\ room \in DOMAIN bundles.room_pdfs <=>
                  /\ room \in OrderedRoomSet
                  /\ \E subj \in ResolvedOf(room) : Len(SourcePages(subj)) > 0
            /\ room \in DOMAIN bundles.room_pdfs => Len(bundles.room_pdfs[room]) > 0

\* one room has a bundle; another processed room has none although its subject
\* is resolved, because the source PDF has no page
C17_Witness ==
    /\ Bundled
    /\ \E present, absent \in OrderedRoomSet :
          /\ present \in DOMAIN bundles.room_pdfs
          /\ absent \notin DOMAIN bundles.room_pdfs
          /\ ResolvedOf(absent) # {}
          /\ \A subj \in ResolvedOf(absent) : SourcePages(subj) = <<>>

HandlerRan == pc \in {"bundled", "failed"}

\* C18: generate_room_pdfs returns for every combination of its inputs, and
\* every subject with demand that is not bundled, in whatever room, has a warning.
C18_NeverAborts ==
    HandlerRan =>
        /\ bundles.status = "ok"
        /\ \A room \in {RoomA, RoomB} :
              \A subj \in DemandOf(room) :
                  InSummary(room, subj) \/ \E k \in 1..Len(bundles.warnings) :
                      bundles.warnings[k].Subject = subj /\ bundles.warnings[k].Room = room

(***************************************************************************)
(* Validation of the seating request (app.py).                             *)
(***************************************************************************)
\* no room selected, or a roster or a room table without a required column
InvalidRequest ==
    \/ session.select_rooms = <<>>
    \/ ~({"Class_No", "Student_Name"} \subseteq session.student_file_obj.columns)
    \/ ~({"Room", "Start", "End"} \subseteq session.room_file_obj.columns)

ErrorReported ==
    \E k \in 1..Len(messages) : messages[k].kind \in {"error", "exception"}

\* C19: a press of "Generate Seating Plan" with no room selected, or with a
\* roster without Class No or Student Name, or with a room table without Room,
\* Start or End, reports an error and leaves the stored outputs and the
\* generated_seating flag as they were.
C19_FailFast ==
    [][(PressGenerateSeating /\ InvalidRequest) =>
          /\ session'.stored = session.stored
          /\ session'.generated_seating = session.generated_seating
          /\ ErrorReported']_vars

\* outputs of an earlier run are stored, the roster was replaced by one without
\* Class No, and the press was refused
C19_Witness ==
    /\ pc = "app"
    /\ session.generated_seating
    /\ session.stored.seating_df # <<>>
    /\ ~roster_has_columns(session.student_file_obj)
    /\ messages = << message("error", "Student list must contain") >>

(***************************************************************************)
(* Subject normalisation (utils.normalize_subject).                        *)
(***************************************************************************)
IsBlank(c) == c \in {" ", "\t"}

\* s without its first i and its last j characters is s without its leading
\* and trailing blanks
TrimsTo(s, i, j) ==
    /\ i + j <= Len(s)
    /\ \A k \in 1..i : IsBlank(s[k])
    /\ \A k \in (Len(s) - j + 1)..Len(s) : IsBlank(s[k])
    /\ i + j < Len(s) => ~IsBlank(s[i + 1]) /\ ~IsBlank(s[Len(s) - j])

Core(s, i, j) == SubSeq(s, i + 1, Len(s) - j)

\* r is s with each lower-case letter replaced by its capital
UpperCased(s, r) ==
    /\ Len(r) = Len(s)
    /\ \A k \in 1..Len(s) :
          \/ s[k] = "a" /\ r[k] = "A"
          \/ s[k] # "a" /\ r[k] = s[k]

\* the same text up to letter case and surrounding blanks
SameSubject(x, y) ==
    \E i, j \in 0..Len(x) :
        /\ TrimsTo(x, i, j)
        /\ \E p, q \in 0..Len(y) :
              /\ TrimsTo(y, p, q)
              /\ Len(Core(x, i, j)) = Len(Core(y, p, q))
              /\ \A k \in 1..Len(Core(x, i, j)) :
                    \/ Core(x, i, j)[k] = Core(y, p, q)[k]
                    \/ {Core(x, i, j)[k], Core(y, p, q)[k]} = {"a", "A"}

\* C21: normalize_subject returns "" for a missing value and otherwise the
\* value trimmed and upper-cased; applied to its own result it returns the
\* result; values that differ only in letter case and surrounding blanks have
\* the same result.
C21_Normalize ==
    pc \in {"returned", "again"} =>
        /\ isna(call.s) => returned[1] = EmptyStr
        /\ notna(call.s) =>
              \E i, j \in 0..Len(call.s) :
                  TrimsTo(call.s, i, j) /\ UpperCased(Core(call.s, i, j), returned[1])
        /\ pc = "again" => returned[2] = returned[1]
        /\ notna(call.s) =>
              \A other \in SubjectValues \ {NaN} :
                  SameSubject(call.s, other) => normalize_subject(other) = returned[1]

\* " a" with a tab behind it was normalized to "A", and "A" again to "A"
C21_Witness ==
    /\ pc = "again"
    /\ call.s = <<" ", "a", "\t">>
    /\ returned = << <<"A">>, <<"A">> >>

(***************************************************************************)
(* The summary of the bundles (generate_room_pdfs, room_qp_summary).       *)
(***************************************************************************)
\* the (room, subject, code) triples that were bundled
BundledKeys ==
    { [Room |-> room, Subject |-> subj, QP_Code |-> CodeOf(subj)] :
         <<room, subj>> \in { rs \in OrderedRoomSet \X {MATH, PHY} : rs[2] \in ResolvedOf(rs[1]) } }

KeyOfRow(row) == [Room |-> row.Room, Subject |-> row.Subject, QP_Code |-> row.QP_Code]

OneRowPerBundledKey ==
    /\ { KeyOfRow(bundle_rows[k]) : k \in 1..Len(bundle_rows) } = BundledKeys
    /\ Len(bundle_rows) = Cardinality(BundledKeys)

RECURSIVE StudentsOfRoom(_, _)
StudentsOfRoom(rows, room) ==
    IF rows = <<>> THEN 0
    ELSE (IF Head(rows).Room = room THEN Head(rows).Students ELSE 0)
             + StudentsOfRoom(Tail(rows), room)

TotalsAreSums ==
    \A k \in 1..Len(bundle_rows) :
        bundle_rows[k].Total_Students = StudentsOfRoom(bundle_rows, bundle_rows[k].Room)

MappingRowsOf(subj) ==
    { k \in 1..Len(mapping_df.rows) : mapping_df.rows[k].Subject_Name = subj }

PagesOf(doc) == { doc[i] : i \in 1..Len(doc) }

\* C24: when the call returns, every subject of a processed room that the
\* mapping table lists is looked up by the first of its rows: its summary row
\* carries that code, it is skipped when that code is not uploaded even if a
\* later row's code is, and the room's document holds only pages of the
\* papers found that way.
C24_FirstMatch ==
    Bundled =>
        \A room \in OrderedRoomSet :
            /\ \A subj \in DemandOf(room) :
                  Mapped(subj) =>
                      /\ \A k \in 1..Len(bundle_rows) :
                            (bundle_rows[k].Room = room /\ bundle_rows[k].Subject = subj)
                                => bundle_rows[k].QP_Code = CodeOf(subj)
                      /\ (InSummary(room, subj) <=> CodeOf(subj) \in DOMAIN uploaded_qps)
            /\ \A page \in PagesOf(DocumentOf(room)) :
                  \E subj \in ResolvedOf(room) : page \in PagesOf(SourcePages(subj))

\* MATH has two mapping rows with different codes, both codes are uploaded,
\* and MATH is bundled in two rooms
C24_Witness ==
    /\ Bundled
    /\ Cardinality(MappingRowsOf(MATH)) = 2
    /\ \E j, k \in MappingRowsOf(MATH) :
          /\ mapping_df.rows[j].QP_Code # mapping_df.rows[k].QP_Code
          /\ {mapping_df.rows[j].QP_Code, mapping_df.rows[k].QP_Code} \subseteq DOMAIN uploaded_qps
    /\ InSummary(RoomA, MATH) /\ InSummary(RoomB, MATH)

(***************************************************************************)
(* Keys of the uploaded papers (build_uploaded_qps).                       *)
(***************************************************************************)
\* the name without a final ".pdf" in any letter case, upper-cased
StemKey(name) ==
    LET n == Len(name)
    IN  IF /\ n >= 4
           /\ name[n - 3] = "."
           /\ name[n - 2] \in {"p", "P"}
           /\ name[n - 1] \in {"d", "D"}
           /\ name[n] \in {"f", "F"}
        THEN upper(SubSeq(name, 1, n - 4))
        ELSE upper(name)

\* C23: the dict has the upper-cased stems of the file names as its keys, the
\* extension removed in whatever letter case it is written, and holds under a
\* key the bytes of the last file with that key.
C23_StemKeys ==
    pc = "returned" /\ returned # <<>> =>
        LET files == call.qp_file_objs
            dict == returned[1]
        IN  /\ DOMAIN dict = { StemKey(files[i].name) : i \in 1..Len(files) }
            /\ \A i \in 1..Len(files) :
                  (\A j \in (i + 1)..Len(files) : StemKey(files[j].name) # StemKey(files[i].name))
                      => dict[StemKey(files[i].name)] = files[i].bytes

(***************************************************************************)
(* Bench-seat locations (generate_summaries, qp_count).                    *)
(***************************************************************************)
SeatText(seat) ==
    IF seat = "Left" THEN <<"L", "e", "f", "t">>
    ELSE IF seat = "Right" THEN <<"R", "i", "g", "h", "t">>
    ELSE <<"C", "e", "n", "t", "e", "r">>

\* "{bench}-{seat}" of the rows of (room, subject) in the order of the rows,
\* with ", " between two entries
RECURSIVE LocationsOf(_, _, _)
LocationsOf(rows, room, subj) ==
    IF rows = <<>> THEN <<>>
    ELSE LET rest == LocationsOf(Tail(rows), room, subj)
             row == Head(rows)
         IN  IF row.Room = room /\ row.Subject = subj
             THEN <<Digits[row.Bench]>> \o <<"-">> \o SeatText(row.Seat)
                      \o (IF rest = <<>> THEN <<>> ELSE <<",", " ">> \o rest)
             ELSE rest

Commas(s) == Cardinality({ i \in 1..Len(s) : s[i] = "," })

\* C25: Bench_Seat_Locations of a qp_count row is the ", "-joined list of the
\* "{bench}-{seat}" of the qp_detail rows of its (room, subject), bench and
\* seat taken from the same row, in the order of qp_detail, and it has
\* QP_Needed entries.
C25_Locations ==
    pc = "done" =>
        \A g \in 1..Len(count_rows) :
            /\ count_rows[g].Bench_Seat_Locations =
                   LocationsOf(detail_rows, count_rows[g].Room, count_rows[g].Subject)
            /\ Commas(count_rows[g].Bench_Seat_Locations) + 1 = count_rows[g].QP_Needed

\* a group of "1-Left, 2-Left" and a group with a Right seat
C25_Witness ==
    /\ pc = "done"
    /\ \E g, h \in 1..Len(count_rows) :
          /\ count_rows[g].Bench_Seat_Locations =
                 <<"1", "-", "L", "e", "f", "t", ",", " ", "2", "-", "L", "e", "f", "t">>
          /\ count_rows[h].Bench_Seat_Locations = <<"1", "-", "R", "i", "g", "h", "t">>

(***************************************************************************)
(* Filling order of the seat positions (generate_seating).                 *)
(***************************************************************************)
Filled(i) == sdf[i].Class_No # Dash

AllFilled(seat) == \A i \in 1..Len(sdf) : sdf[i].Seat = seat => Filled(i)

SomeFilled(seat) == \E i \in 1..Len(sdf) : sdf[i].Seat = seat /\ Filled(i)

\* C26: in the seat table generate_seating returns, a filled Right slot in any
\* room means every Left slot of every selected room is filled, and a filled
\* Center slot means every Left and every Right slot is filled.
C26_OuterSeatsFirst ==
    Returned =>
        /\ SomeFilled("Right") => AllFilled("Left")
        /\ SomeFilled("Center") => AllFilled("Left") /\ AllFilled("Right")

\* two rooms: a Right seat of the first is taken, so are the Left seats of both,
\* and a Right seat is still free
C26_Witness ==
    /\ Returned
    /\ Len(selected_rooms) = 2
    /\ SomeFilled("Right")
    /\ ~AllFilled("Right")
    /\ \E i, j \in 1..Len(sdf) :
          /\ sdf[i].Room # sdf[j].Room
          /\ sdf[i].Seat = "Left" /\ sdf[j].Seat = "Left"
          /\ Filled(i) /\ Filled(j)

(***************************************************************************)
(* The single-file script and the modules.                                 *)
(***************************************************************************)
LegacyDone == returned # <<>>

ModularDone == pc \in {"raised", "bundled", "failed"}

LegacyOutputs == IF LegacyDone THEN returned[1] ELSE NoOutputs("none", <<>>)

SameOutputs ==
    /\ LegacyOutputs.seating_df = seating.seating_df
    /\ LegacyOutputs.final_df = seating.final_df
    /\ LegacyOutputs.summaries = summaries
    /\ LegacyOutputs.room_pdfs = bundles.room_pdfs

\* C27: on the same room table, roster, selection, day, mapping table and
\* uploaded papers the handler of qp_generating.py and the pipeline
\* generate_seating, generate_summaries, generate_room_pdfs end alike: one
\* returns normally exactly when the other does, and then the seat table, the
\* pivot grid, the room summary, qp_detail, qp_count, the hall summary and
\* room_pdfs are the same, also when no slot has a subject.
C27_Equivalent ==
    (LegacyDone /\ ModularDone) =>
        /\ (LegacyOutputs.status = "ok") <=> (pc = "bundled")
        /\ (LegacyOutputs.status = "ok") => SameOutputs

\* the two programs end alike on the runs where a slot has a subject and the
\* mapping table has its subject column
AgreeOnDemand ==
    (/\ LegacyDone /\ ModularDone
     /\ summaries.qp_summary_df.rows # <<>>
     /\ (mapping_df.none \/ has_mapping_columns(mapping_df))) =>
        /\ LegacyOutputs.status = "ok"
        /\ pc = "bundled"
        /\ SameOutputs

\* no slot has a subject, a mapping table and papers are given: the script
\* raises KeyError and the modules return
LegacyRaises ==
    /\ LegacyDone /\ ModularDone
    /\ summaries.qp_summary_df.rows = <<>>
    /\ LegacyOutputs.status = "KeyError"
    /\ pc = "bundled"

\* the mapping table has no "Subject Name" column: the script skips every
\* subject and the modules raise KeyError
ModulesRaise ==
    /\ LegacyDone /\ ModularDone
    /\ LegacyOutputs.status = "ok"
    /\ pc = "failed"

(***************************************************************************)
(* The session of app.py across reruns.                                    *)
(***************************************************************************)
\* the rooms the stored seating was generated with: the room summary has one
\* row per room of that list, in its order
SeatingRooms ==
    [k \in 1..Len(session.stored.summaries.summary_df.rows) |->
        session.stored.summaries.summary_df.rows[k].Room]

BundlesOf(ordered_rooms, ties) ==
    generate_room_pdfs(session.mapping_df, session.stored.summaries.qp_summary_df,
                       session.uploaded_qps, ordered_rooms, ties)

StoredBundlesAre(ordered_rooms) ==
    \E ties \in TieOrders :
        /\ BundlesOf(ordered_rooms, ties).status = "ok"
        /\ session.room_pdfs = BundlesOf(ordered_rooms, ties).room_pdfs
        /\ session.room_qp_summary_df = BundlesOf(ordered_rooms, ties).room_summary_df

\* C28: after any sequence of selection changes and presses of the two
\* buttons, room_pdfs and room_qp_summary_df, once set, are what
\* generate_room_pdfs gives for the stored qp_summary_raw and the room list
\* the stored seating was generated with, and generated_qp is set only if
\* generated_seating is.
C28_Consistent ==
    session.generated_qp =>
        /\ session.generated_seating
        /\ StoredBundlesAre(SeatingRooms)

\* generated_qp is set only if generated_seating is
QpOnlyAfterSeating == session.generated_qp => session.generated_seating

\* bundles made for a narrower selection than the one of the stored seating
StaleBundles ==
    /\ session.generated_qp
    /\ SeatingRooms = <<RoomA, RoomB>>
    /\ DOMAIN session.room_pdfs = {RoomA}
    /\ RoomB \in DOMAIN BundlesOf(SeatingRooms, "first").room_pdfs

(***************************************************************************)
(* The remark sheet of a room.                                             *)
(***************************************************************************)
SheetFilled == pc = "filled"

Sheet == IF returned = <<>> THEN call.ws ELSE returned[1].ws

FooterHeaderRow == IF returned = <<>> THEN 0 ELSE returned[1].footer_header_row

RoomBenches == min_bench(call.room_data)..max_bench(call.room_data)

BenchRow(b) == START_ROW + (b - min_bench(call.room_data))

SeatColumn(seat) == IF seat = "Left" THEN 2 ELSE IF seat = "Center" THEN 4 ELSE 6

TemplateHasFooter == \E r \in START_ROW..max_row(call.ws) : is_class_cell(call.ws, r)

RowsInserted == max_row(Sheet) > max_row(call.ws)

\* the cells of the template after the row expansion
ExpandedTemplate == expand_rows(call.ws, call.room_data).ws

\* C29: after the row expansion every bench row written, START_ROW up to
\* START_ROW + (max_bench - min_bench), is strictly above footer_header_row,
\* where the footer header of the template still stands; each bench has a row of
\* its own, carrying its number, and each seated student is in the row of the
\* bench and the column of the seat (Left 2, Center 4, Right 6).
C29_BenchRows ==
    SheetFilled =>
        /\ \A b \in RoomBenches :
              /\ START_ROW <= BenchRow(b) /\ BenchRow(b) < FooterHeaderRow
              /\ Sheet[<<BenchRow(b), 1>>] = number(b)
        /\ \A b1, b2 \in RoomBenches : b1 # b2 => BenchRow(b1) # BenchRow(b2)
        /\ TemplateHasFooter => is_class_cell(Sheet, FooterHeaderRow)
        /\ \A k \in 1..Len(call.room_data) :
              call.room_data[k].Class_No # Dash =>
                  /\ <<BenchRow(call.room_data[k].Bench),
                       SeatColumn(call.room_data[k].Seat)>> \in DOMAIN Sheet
                  /\ Sheet[<<BenchRow(call.room_data[k].Bench),
                             SeatColumn(call.room_data[k].Seat)>>]
                       = text(call.room_data[k].Class_No)
        /\ \A p \in DOMAIN Sheet \ DOMAIN ExpandedTemplate :
              /\ p[1] \in { BenchRow(b) : b \in RoomBenches }
              /\ p[2] \in {1, 2, 4, 6}

\* a room with more benches than the template has rows above its footer, rows
\* inserted, a student on a Center seat
C29_Witness ==
    /\ SheetFilled
    /\ TemplateHasFooter
    /\ RowsInserted
    /\ max_bench(call.room_data) - min_bench(call.room_data) >= 2
    /\ \E k \in 1..Len(call.room_data) :
          call.room_data[k].Seat = "Center" /\ call.room_data[k].Class_No # Dash

====
